---- MODULE Spec2Model ----
(***************************************************************************)
(* Milestone verification and disbursement back end.                       *)
(*                                                                         *)
(* The model covers the milestone routes (verify, auto-verify, dispute),   *)
(* the BlockchainService wrapper they call, the Express error handler that *)
(* turns thrown errors into HTTP answers, and the PaymentGatewayService.   *)
(* Every `await` of a handler is a point where other requests interleave,  *)
(* so a handler is a small process: one action per stretch of code between *)
(* two awaits.                                                             *)
(*                                                                         *)
(* The subsidy and oracle contracts are not part of the back-end sources:  *)
(* only their ABI is.  Their behaviour (Contract... definitions) follows   *)
(* the written specification of the ledger.                                *)
(***************************************************************************)
EXTENDS Integers, Sequences, FiniteSets, TLC

\* ------------------------------------------------------------------ bounds
MaxMilestones == 1      \* milestone ids 1..MaxMilestones on the ledger
MaxRequests == 2        \* HTTP requests to the milestone routes
MaxPayments == 2        \* processPayment calls
MaxValue == 2           \* actual / target / aggregated values 0..MaxValue
NowDate == 1            \* the instant the requests are made
MaxProjects == 2        \* project ids 1..MaxProjects on the ledger
MaxSources == 2         \* sources in one aggregation call
MaxCalls == 3           \* getCachedData calls
MaxTicks == 2           \* seconds the clock of the cache advances
MaxSockets == 7         \* WebSocket objects the IoT service creates per device
MaxDay == 9             \* the last day the clock of the recurring schedule reaches

MilestoneIds == 1..MaxMilestones
ReqIds == 1..MaxRequests
PayIds == 1..MaxPayments
ProjectIds == 1..MaxProjects
CallIds == 1..MaxCalls
Values == 0..MaxValue

\* The windows an auto-verify request asks for: one that lies in the past,
\* one whose bounds are reversed, one that ends in the future.
Windows ==
    {<<NowDate - 1, NowDate>>, <<NowDate, NowDate - 1>>, <<NowDate, NowDate + 1>>}

\* ------------------------------------------------------- program constants
maxAttempts == 3        \* retryConfig.maxAttempts

\* USER_ROLES
USER_ROLES == {"government", "producer", "auditor", "oracle"}

\* The principals a token can stand for: the four seeded users plus a second
\* producer, so that "own project" and "someone else's project" both occur.
Principals == {"government", "producer", "producer2", "auditor", "oracle"}

roleOf(u) == IF u = "producer2" THEN "producer" ELSE u

\* the `id` of the token: the seeded ids, and 5 for the second producer
userId(u) ==
    CASE u = "government" -> 1 [] u = "producer" -> 2 [] u = "auditor" -> 3
      [] u = "oracle" -> 4 [] OTHER -> 5

walletAddress(u) == u

\* bcrypt.hash(password, 10): a hash that matches this password only
bcryptHash(password) == [algorithm |-> "bcrypt", of |-> password]

\* The `users` array as the module creates it: the four seeded accounts.
\* Their password fields are placeholders, the hash of no password.
SeedUser(id, who) ==
    [id |-> id, email |-> who, password |-> [algorithm |-> "none", of |-> "nothing"],
     role |-> who, name |-> who, walletAddress |-> who]

SeedUsers ==
    <<SeedUser(1, "government"), SeedUser(2, "producer"),
      SeedUser(3, "auditor"), SeedUser(4, "oracle")>>

\* The project every milestone of the model belongs to; its producer is the
\* seeded producer account.
ProjectId == 1

ProjectProducer == walletAddress("producer")

\* _getMilestoneStatusName: the status names of the uint8 the contract returns
MilestoneStatusNames == <<"Pending", "Verified", "Failed", "Disputed">>

_getMilestoneStatusName(status) ==
    IF status + 1 \in DOMAIN MilestoneStatusNames
    THEN MilestoneStatusNames[status + 1]
    ELSE "Unknown"

\* --------------------------------------------------------------- variables
VARIABLES
    initialized,        \* BlockchainService.initialized
    milestones,         \* the subsidy contract's milestone storage
    projects,           \* the subsidy contract's project storage
    oracleData,         \* the oracle contract's submitted values, in order
    users,              \* the `users` array of routes/auth.js
    blockNumber,        \* number of mined transactions (ledger clock)
    reqs,               \* the milestone-route requests, one process each
    auditLog,           \* what logger.audit appended, in order
    pays,               \* the processPayment calls, one process each
    paymentStatuses,    \* PaymentGatewayService.paymentStatuses
    scheduledPayments,  \* PaymentGatewayService.scheduledPayments (keys)
    transfers,          \* transfers the external gateways have executed
    nextNonce,          \* stands for Date.now() + Math.random() in payment ids
    aggregation,        \* a getAggregatedProductionData call and what it returned
    cache,              \* DataIntegrationService.cache
    clock,              \* Date.now() of the cache, in milliseconds
    calls,              \* the getCachedData calls, one process each
    iot,                \* IoTIntegrationService, its sockets and its timers
    trail,              \* a createAuditTrail call, its record and its verification
    recurring           \* a recurring payment schedule and the calls it issued

vars == <<initialized, milestones, projects, oracleData, users, blockNumber, reqs, auditLog,
          pays, paymentStatuses, scheduledPayments, transfers, nextNonce,
          aggregation, cache, clock, calls, iot, trail, recurring>>

\* the state of DataIntegrationService
integration == <<aggregation, cache, clock, calls>>

\* the state of the services no route and no other service calls
services == <<iot, trail, recurring>>

\* ------------------------------------------------------------- the ledger
\* A milestone slot of the contract.  status is the uint8 of the ABI; exists
\* is false for an id the contract has not assigned (getMilestone reverts).
NoMilestone ==
    [exists |-> FALSE, projectId |-> 0, subsidyAmount |-> 0,
     status |-> 0, targetValue |-> 0, actualValue |-> 0,
     verifiedAt |-> 0, verifiedBy |-> "none", paid |-> FALSE]

PendingMilestone(target) ==
    [exists |-> TRUE, projectId |-> ProjectId, subsidyAmount |-> 1,
     status |-> 0, targetValue |-> target, actualValue |-> 0,
     verifiedAt |-> 0, verifiedBy |-> "none", paid |-> FALSE]

\* A milestone that left Pending before the back end attached to the ledger.
ResolvedMilestone(target, st) ==
    [exists |-> TRUE, projectId |-> ProjectId, subsidyAmount |-> 1,
     status |-> st, targetValue |-> target,
     actualValue |-> IF st = 2 THEN 0 ELSE target,
     verifiedAt |-> 1, verifiedBy |-> "signer", paid |-> FALSE]

InitialMilestones ==
    {NoMilestone}
      \cup {PendingMilestone(t) : t \in 1..MaxValue}
      \cup {ResolvedMilestone(MaxValue, st) : st \in 1..3}

\* _getProjectStatusName: the status names of the uint8 the contract returns
ProjectStatusNames == <<"Pending", "Active", "Completed", "Suspended", "Cancelled">>

_getProjectStatusName(status) ==
    IF status + 1 \in DOMAIN ProjectStatusNames
    THEN ProjectStatusNames[status + 1]
    ELSE "Unknown"

\* A project slot of the contract; exists is false for an id the contract has
\* not assigned (getProject reverts).
NoProject ==
    [exists |-> FALSE, producer |-> "none", status |-> 0,
     totalSubsidyAmount |-> 0, disbursedAmount |-> 0]

LedgerProject(producer, total, st) ==
    [exists |-> TRUE, producer |-> producer, status |-> st,
     totalSubsidyAmount |-> total, disbursedAmount |-> 0]

\* The project the milestones of the initial ledger belong to: Active, and
\* large enough for all of them.
FixtureProject == LedgerProject(ProjectProducer, MaxMilestones, 1)

\* The ledger is the store of projects and milestones: registerProject and
\* addMilestone assign the next id; addMilestone needs its project to exist.
FreeProjectIds(ps) == {p \in ProjectIds : ~ps[p].exists}

FreeMilestoneIds(ms) == {m \in MilestoneIds : ~ms[m].exists}

NextId(free) == CHOOSE i \in free : \A j \in free : i <= j

ContractRegisterProject(ps, producer, total) ==
    [ps EXCEPT ![NextId(FreeProjectIds(ps))] = LedgerProject(producer, total, 0)]

ContractCanAddMilestone(ps, projectId) == projectId \in ProjectIds /\ ps[projectId].exists

ContractAddMilestone(ms, projectId, subsidyAmount, targetValue) ==
    [ms EXCEPT ![NextId(FreeMilestoneIds(ms))] =
        [PendingMilestone(targetValue) EXCEPT !.projectId = projectId,
                                              !.subsidyAmount = subsidyAmount]]

\* contract verifyMilestone(_milestoneId, _actualValue, _success): one
\* transaction, atomic on the ledger.  It requires the milestone to be
\* Pending, else it reverts and writes nothing.
ContractCanVerify(ms, id) == ms[id].exists /\ ms[id].status = 0

ContractVerifyMilestone(ms, id, actualValue, success, at) ==
    [ms EXCEPT ![id] = [@ EXCEPT !.status = IF success THEN 1 ELSE 2,
                                 !.actualValue = actualValue,
                                 !.verifiedAt = at,
                                 !.verifiedBy = "signer"]]

\* ------------------------------------------------------ thrown errors
\* An error is its class name and the set of substrings its message holds
\* (the error handler and the route catch blocks test message.includes).
Err(name, msg) == [name |-> name, msg |-> msg]

\* What the contract call throws on revert; ethers' message holds "revert".
MissingMilestoneError == Err("Error", {"revert", "does not exist"})

NotInitializedError == Err("Error", {})

\* The revert reason of verifyMilestone is the contract's; whether or not it
\* talks of a conflict, the message holds "revert".
VerifyRevertErrors == {Err("Error", {"revert"}), Err("Error", {"revert", "conflict"})}

AggregateRevertError == Err("Error", {"revert"})

\* getProject on an id the contract has not assigned
MissingProjectError == Err("Error", {"revert", "does not exist"})

\* `subsidyAmount.toString()` of a field the body does not have, wrapped by
\* the service's catch block
MissingFieldError == Err("Error", {})

NotFoundError == Err("NotFoundError", {"not found"})

ForbiddenError == Err("ForbiddenError", {})

\* errorHandler: the HTTP status of a thrown error
errorHandler(error) ==
    LET byType ==
            IF error.name = "ValidationError" THEN 400
            ELSE IF error.name = "UnauthorizedError" \/ "unauthorized" \in error.msg THEN 401
            ELSE IF error.name = "ForbiddenError" \/ "forbidden" \in error.msg THEN 403
            ELSE IF error.name = "NotFoundError" \/ "not found" \in error.msg THEN 404
            ELSE IF error.name = "ConflictError" \/ "conflict" \in error.msg THEN 409
            ELSE IF error.name = "TooManyRequestsError" THEN 429
            ELSE 500
        byChain ==
            IF "revert" \in error.msg \/ "transaction failed" \in error.msg
            THEN 400 ELSE byType
    IN  IF error.name \in {"MongoError", "SequelizeError"} THEN 500 ELSE byChain

\* The catch block every milestone route ends with.
routeCatch(error) ==
    IF "does not exist" \in error.msg THEN NotFoundError ELSE error

\* ------------------------------------------------------ BlockchainService
\* getMilestone: the thrown error, or the milestone as the route sees it
getMilestone(id) ==
    IF ~initialized THEN [ok |-> FALSE, error |-> NotInitializedError]
    ELSE IF ~milestones[id].exists THEN [ok |-> FALSE, error |-> MissingMilestoneError]
    ELSE [ok |-> TRUE,
          status |-> _getMilestoneStatusName(milestones[id].status),
          targetValue |-> milestones[id].targetValue]

\* getProject: the thrown error, or the project as the route sees it
getProject(projectId) ==
    IF ~initialized THEN [ok |-> FALSE, error |-> NotInitializedError]
    ELSE IF projectId \notin ProjectIds \/ ~projects[projectId].exists
    THEN [ok |-> FALSE, error |-> MissingProjectError]
    ELSE [ok |-> TRUE,
          producer |-> projects[projectId].producer,
          status |-> _getProjectStatusName(projects[projectId].status)]

\* ------------------------------------------------------------- middleware
\* a middleware that lets every role through
authorize_anyRole(roles, user) == TRUE

\* a middleware that also lets the government through everywhere
authorize_governmentToo(roles, user) == roleOf(user) \in roles \cup {"government"}

\* authorize(...roles)
authorize(roles, user) == roleOf(user) \in roles

ReasonMin == 10

ReasonMax == 500

\* validateRequest of POST /:id/verify
validVerifyBody(actualValue) == actualValue >= 0

\* validateRequest of POST /:id/dispute
validDisputeBody(reasonLength) == reasonLength >= ReasonMin /\ reasonLength <= ReasonMax

\* sensitiveOperationLimiter allows 10 requests an hour per address; the
\* requests of the model stay below that.

\* ---------------------------------------------------------------- requests
\* The Authorization header of a request, as its words; <<>> is a request
\* without the header.  A token is malformed, expired, or names its user.
\* Unread stands for the header in the specifications that start behind
\* authenticateToken, where req.user is already there.
Unread == <<"unread">>

TokenUsers == {"government", "oracle"}

Tokens == {"malformed", "expired"} \cup TokenUsers

Headers ==
    {<<>>, <<"Bearer">>} \cup {<<scheme, t>> : scheme \in {"Bearer", "Basic"}, t \in Tokens}

\* a middleware that lets every request through, as the government
authenticateToken_open(header) == [status |-> 0, user |-> "government"]

\* authenticateToken: `authHeader && authHeader.split(' ')[1]`, 401 without
\* a token, 403 when jwt.verify fails, else req.user is the token's payload
authenticateToken(header) ==
    LET token == IF Len(header) >= 2 THEN header[2] ELSE "none"
    IN  IF token = "none" THEN [status |-> 401, user |-> "none"]
        ELSE IF token \notin TokenUsers THEN [status |-> 403, user |-> "none"]
        ELSE [status |-> 0, user |-> token]

\* What res.json of a read route carries: the ids of the projects and of the
\* milestones whose records are in the answer.  An error answer carries none.
NoData == [projects |-> {}, milestones |-> {}]

IdleRequest ==
    [kind |-> "none", pc |-> "idle", user |-> "government", id |-> 1,
     actualValue |-> 0, success |-> FALSE, fromDate |-> 0, toDate |-> 0,
     reasonLength |-> 0, approved |-> FALSE,
     projectId |-> 0, amount |-> 0, subsidyAmount |-> 0, newStatus |-> "none",
     email |-> "none", password |-> "none", walletAddress |-> "none", seenStatus |-> "unread", seenTarget |-> 0,
     total |-> 0, last |-> "none", http |-> 0, authorization |-> Unread,
     json |-> NoData, path |-> <<>>]

\* a response that always says Forbidden
Answered_forbidden(req, status) == [req EXCEPT !.pc = "done", !.http = 403]

\* An answered request: who asked what, the milestone status the handler had
\* read (if it got that far), the call it was answered from (idle: by the
\* middleware) and the HTTP status of the answer.  The request body is gone
\* with the handler's frame.
Answered(req, status) ==
    [IdleRequest EXCEPT !.kind = req.kind, !.pc = "done", !.user = req.user,
                        !.id = req.id, !.seenStatus = req.seenStatus,
                        !.last = req.pc, !.http = status]

AuditEntry(action, user, id) == [action |-> action, userId |-> user, milestoneId |-> id]

Respond(r, status) ==
    reqs' = [reqs EXCEPT ![r] = Answered(@, status)]

LedgerCoreUnchanged ==
    UNCHANGED <<services, initialized, milestones, projects, oracleData, blockNumber>>

\* what a step of a route or of the payment service leaves alone: the ledger
\* and DataIntegrationService
LedgerUnchanged ==
    UNCHANGED <<integration, services, initialized, milestones, projects, oracleData, blockNumber>>

UsersUnchanged == UNCHANGED users

PaymentsUnchanged ==
    UNCHANGED <<pays, paymentStatuses, scheduledPayments, transfers, nextNonce>>

\* POST /:id/verify, up to the first await: authorize, validateRequest
StartVerify(r) ==
    /\ reqs[r].pc = "idle"
    /\ IF r = 1 THEN TRUE ELSE reqs[r - 1].pc # "idle"
    /\ \E u \in Principals, id \in MilestoneIds, v \in (-1)..MaxValue, s \in BOOLEAN :
         LET req == [IdleRequest EXCEPT !.kind = "verify", !.user = u, !.id = id,
                                        !.actualValue = v, !.success = s]
         IN  reqs' = [reqs EXCEPT ![r] =
                 IF ~authorize({"oracle", "auditor"}, u) THEN Answered(req, 403)
                 ELSE IF ~validVerifyBody(v) THEN Answered(req, 400)
                 ELSE [req EXCEPT !.pc = "getMilestone"]]
    /\ LedgerUnchanged /\ UsersUnchanged /\ PaymentsUnchanged /\ UNCHANGED auditLog

\* the handler's `await blockchainService.getMilestone(milestoneId)`
VerifyGetMilestone(r) ==
    /\ reqs[r].kind = "verify" /\ reqs[r].pc = "getMilestone"
    /\ LET m == getMilestone(reqs[r].id)
       IN  IF ~m.ok
           THEN Respond(r, errorHandler(routeCatch(m.error)))
           ELSE reqs' = [reqs EXCEPT ![r] = [@ EXCEPT !.pc = "verifyMilestone",
                                                      !.seenStatus = m.status,
                                                      !.seenTarget = m.targetValue]]
    /\ LedgerUnchanged /\ UsersUnchanged /\ PaymentsUnchanged /\ UNCHANGED auditLog

\* blockchainService.verifyMilestone and what the handler does with the
\* receipt: audit entry and answer, or the thrown error
SubmitVerification(r, actualValue, success, auditAction) ==
    IF ~initialized
    THEN /\ Respond(r, errorHandler(routeCatch(NotInitializedError)))
         /\ UNCHANGED <<milestones, blockNumber, auditLog>>
    ELSE IF ContractCanVerify(milestones, reqs[r].id)
    THEN /\ milestones' = ContractVerifyMilestone(milestones, reqs[r].id,
                                                  actualValue, success, blockNumber + 1)
         /\ blockNumber' = blockNumber + 1
         /\ auditLog' = Append(auditLog, AuditEntry(auditAction, reqs[r].user, reqs[r].id))
         /\ Respond(r, 200)
    ELSE /\ \E e \in VerifyRevertErrors : Respond(r, errorHandler(routeCatch(e)))
         /\ UNCHANGED <<milestones, blockNumber, auditLog>>

VerifyVerifyMilestone(r) ==
    /\ reqs[r].kind = "verify" /\ reqs[r].pc = "verifyMilestone"
    /\ SubmitVerification(r, reqs[r].actualValue, reqs[r].success, "MILESTONE_VERIFIED")
    /\ PaymentsUnchanged /\ UsersUnchanged /\ UNCHANGED <<integration, services, initialized, projects, oracleData>>

\* POST /:id/auto-verify, up to the first await.  The two dates only have to
\* be ISO 8601 dates: nothing compares them with each other or with the clock.
StartAutoVerify(r) ==
    /\ reqs[r].pc = "idle"
    /\ IF r = 1 THEN TRUE ELSE reqs[r - 1].pc # "idle"
    /\ \E u \in Principals, id \in MilestoneIds, window \in Windows :
         LET req == [IdleRequest EXCEPT !.kind = "autoVerify", !.user = u, !.id = id,
                                        !.fromDate = window[1], !.toDate = window[2]]
         IN  reqs' = [reqs EXCEPT ![r] =
                 IF ~authorize({"oracle"}, u) THEN Answered(req, 403)
                 ELSE [req EXCEPT !.pc = "getMilestone"]]
    /\ LedgerUnchanged /\ UsersUnchanged /\ PaymentsUnchanged /\ UNCHANGED auditLog

\* a slip that turns away only milestones already verified
autoVerifyRejects_onlyVerified(status) == status = "Verified"

\* `if (milestone.status !== 'Pending') return res.status(400)`
autoVerifyRejects(status) == status # "Pending"

AutoGetMilestone(r) ==
    /\ reqs[r].kind = "autoVerify" /\ reqs[r].pc = "getMilestone"
    /\ LET m == getMilestone(reqs[r].id)
       IN  IF ~m.ok
           THEN Respond(r, errorHandler(routeCatch(m.error)))
           ELSE IF autoVerifyRejects(m.status)
           THEN reqs' = [reqs EXCEPT ![r] =
                           Answered([@ EXCEPT !.seenStatus = m.status], 400)]
           ELSE reqs' = [reqs EXCEPT ![r] = [@ EXCEPT !.pc = "getAggregateValue",
                                                      !.seenStatus = m.status,
                                                      !.seenTarget = m.targetValue]]
    /\ LedgerUnchanged /\ UsersUnchanged /\ PaymentsUnchanged /\ UNCHANGED auditLog

\* blockchainService.getAggregateValue: a view call on the oracle contract.
\* It answers with the total of the window, whatever the window is, or
\* reverts.  The handler does not use the window after this call.
AutoGetAggregateValue(r) ==
    /\ reqs[r].kind = "autoVerify" /\ reqs[r].pc = "getAggregateValue"
    /\ \/ \E total \in Values :
            reqs' = [reqs EXCEPT ![r] = [@ EXCEPT !.pc = "verifyMilestone",
                                                  !.fromDate = 0, !.toDate = 0,
                                                  !.total = total]]
       \/ Respond(r, errorHandler(routeCatch(AggregateRevertError)))
    /\ LedgerUnchanged /\ UsersUnchanged /\ PaymentsUnchanged /\ UNCHANGED auditLog

\* a strict comparison in place of the inclusive one
autoVerifySuccess_strict(totalValue, targetValue) == totalValue > targetValue

\* `const success = aggregateData.totalValue >= milestone.targetValue`
autoVerifySuccess(totalValue, targetValue) == totalValue >= targetValue

AutoVerifyMilestone(r) ==
    /\ reqs[r].kind = "autoVerify" /\ reqs[r].pc = "verifyMilestone"
    /\ SubmitVerification(r, reqs[r].total,
                          autoVerifySuccess(reqs[r].total, reqs[r].seenTarget),
                          "MILESTONE_AUTO_VERIFIED")
    /\ PaymentsUnchanged /\ UsersUnchanged /\ UNCHANGED <<integration, services, initialized, projects, oracleData>>

\* POST /:id/dispute, up to the first await
StartDispute(r) ==
    /\ reqs[r].pc = "idle"
    /\ IF r = 1 THEN TRUE ELSE reqs[r - 1].pc # "idle"
    /\ \E u \in Principals, id \in MilestoneIds, len \in {ReasonMin - 1, ReasonMin} :
         LET req == [IdleRequest EXCEPT !.kind = "dispute", !.user = u, !.id = id,
                                        !.reasonLength = len]
         IN  reqs' = [reqs EXCEPT ![r] =
                 IF ~authorize({"producer", "government"}, u) THEN Answered(req, 403)
                 ELSE IF ~validDisputeBody(len) THEN Answered(req, 400)
                 ELSE [req EXCEPT !.pc = "getMilestone"]]
    /\ LedgerUnchanged /\ UsersUnchanged /\ PaymentsUnchanged /\ UNCHANGED auditLog

DisputeGetMilestone(r) ==
    /\ reqs[r].kind = "dispute" /\ reqs[r].pc = "getMilestone"
    /\ LET m == getMilestone(reqs[r].id)
       IN  IF ~m.ok
           THEN Respond(r, errorHandler(routeCatch(m.error)))
           ELSE reqs' = [reqs EXCEPT ![r] = [@ EXCEPT !.pc = "getProject",
                                                      !.seenStatus = m.status,
                                                      !.seenTarget = m.targetValue]]
    /\ LedgerUnchanged /\ UsersUnchanged /\ PaymentsUnchanged /\ UNCHANGED auditLog

\* a check that lets every producer through
disputeForbidden_never(user, producer) == FALSE

\* `req.user.role === PRODUCER && project.producer !== req.user.walletAddress`
disputeForbidden(user, producer) ==
    roleOf(user) = "producer" /\ producer # walletAddress(user)

\* a check that only turns Pending milestones away
canBeDisputed_notPending(status) == status # "Pending"

\* `['Verified', 'Failed'].includes(milestone.status)`
canBeDisputed(status) == status \in {"Verified", "Failed"}

\* `await blockchainService.getProject(...)` and the rest of the handler: the
\* dispute is written to the audit log and to nothing else.
DisputeGetProject(r) ==
    /\ reqs[r].kind = "dispute" /\ reqs[r].pc = "getProject"
    /\ IF ~initialized
       THEN Respond(r, errorHandler(routeCatch(NotInitializedError))) /\ UNCHANGED auditLog
       ELSE IF disputeForbidden(reqs[r].user, ProjectProducer)
       THEN Respond(r, errorHandler(routeCatch(ForbiddenError))) /\ UNCHANGED auditLog
       ELSE IF ~canBeDisputed(reqs[r].seenStatus)
       THEN Respond(r, 400) /\ UNCHANGED auditLog
       ELSE /\ auditLog' = Append(auditLog,
                  AuditEntry("MILESTONE_DISPUTED", reqs[r].user, reqs[r].id))
            /\ Respond(r, 200)
    /\ LedgerUnchanged /\ UsersUnchanged /\ PaymentsUnchanged

\* ------------------------------------------------- project and milestone
\* Amounts are counted in hundredths; Missing stands for a field the body
\* does not have.
Missing == -1

AmountMin == 1

\* validationRules.amount: `body('amount').isFloat({ min: 0.01 })`
validAmount(amount) == amount # Missing /\ amount >= AmountMin

\* what a request body holds in `amount`, and in `subsidyAmount` or
\* `totalSubsidyAmount`
AmountInputs == {Missing, 0, AmountMin}

SubsidyInputs == {Missing, 0, AmountMin}

\* POST /api/milestones, up to the first await.  The body is valid but for
\* the amounts: validateRequest looks at `amount`, the handler reads
\* `subsidyAmount`.
StartCreateMilestone(r) ==
    /\ reqs[r].pc = "idle"
    /\ IF r = 1 THEN TRUE ELSE reqs[r - 1].pc # "idle"
    /\ \E u \in Principals, projectId \in ProjectIds, amount \in AmountInputs,
          subsidyAmount \in SubsidyInputs :
         LET req == [IdleRequest EXCEPT !.kind = "createMilestone", !.user = u,
                                        !.projectId = projectId, !.amount = amount,
                                        !.subsidyAmount = subsidyAmount]
         IN  reqs' = [reqs EXCEPT ![r] =
                 IF ~authorize({"government"}, u) THEN Answered(req, 403)
                 ELSE IF ~validAmount(amount) THEN Answered(req, 400)
                 ELSE [req EXCEPT !.pc = "getProject"]]
    /\ LedgerUnchanged /\ UsersUnchanged /\ PaymentsUnchanged /\ UNCHANGED auditLog

\* `const project = await blockchainService.getProject(projectId)`: the
\* handler only needs the call not to throw.
CreateGetProject(r) ==
    /\ reqs[r].kind = "createMilestone" /\ reqs[r].pc = "getProject"
    /\ LET p == getProject(reqs[r].projectId)
       IN  IF ~p.ok
           THEN Respond(r, errorHandler(p.error))
           ELSE reqs' = [reqs EXCEPT ![r] = [@ EXCEPT !.pc = "addMilestone"]]
    /\ LedgerUnchanged /\ UsersUnchanged /\ PaymentsUnchanged /\ UNCHANGED auditLog

\* blockchainService.addMilestone and the rest of the handler
CreateAddMilestone(r) ==
    /\ reqs[r].kind = "createMilestone" /\ reqs[r].pc = "addMilestone"
    /\ IF ~initialized
       THEN /\ Respond(r, errorHandler(NotInitializedError))
            /\ UNCHANGED <<milestones, blockNumber, auditLog>>
       ELSE IF reqs[r].subsidyAmount = Missing
       THEN /\ Respond(r, errorHandler(MissingFieldError))
            /\ UNCHANGED <<milestones, blockNumber, auditLog>>
       ELSE IF ~ContractCanAddMilestone(projects, reqs[r].projectId)
       THEN /\ Respond(r, errorHandler(MissingProjectError))
            /\ UNCHANGED <<milestones, blockNumber, auditLog>>
       ELSE /\ FreeMilestoneIds(milestones) # {}
            /\ milestones' = ContractAddMilestone(milestones, reqs[r].projectId,
                                                   reqs[r].subsidyAmount, MaxValue)
            /\ blockNumber' = blockNumber + 1
            /\ auditLog' = Append(auditLog,
                   AuditEntry("MILESTONE_ADDED", reqs[r].user,
                              NextId(FreeMilestoneIds(milestones))))
            /\ Respond(r, 201)
    /\ PaymentsUnchanged /\ UsersUnchanged /\ UNCHANGED <<integration, services, initialized, projects, oracleData>>

\* POST /api/projects, up to the first await.  New projects are registered
\* for the second producer.
StartCreateProject(r) ==
    /\ reqs[r].pc = "idle"
    /\ IF r = 1 THEN TRUE ELSE reqs[r - 1].pc # "idle"
    /\ \E u \in Principals, amount \in AmountInputs, totalSubsidyAmount \in SubsidyInputs :
         LET req == [IdleRequest EXCEPT !.kind = "createProject", !.user = u,
                                        !.amount = amount,
                                        !.subsidyAmount = totalSubsidyAmount]
         IN  reqs' = [reqs EXCEPT ![r] =
                 IF ~authorize({"government"}, u) THEN Answered(req, 403)
                 ELSE IF ~validAmount(amount) THEN Answered(req, 400)
                 ELSE [req EXCEPT !.pc = "registerProject"]]
    /\ LedgerUnchanged /\ UsersUnchanged /\ PaymentsUnchanged /\ UNCHANGED auditLog

\* blockchainService.registerProject and the rest of the handler
CreateRegisterProject(r) ==
    /\ reqs[r].kind = "createProject" /\ reqs[r].pc = "registerProject"
    /\ IF ~initialized
       THEN /\ Respond(r, errorHandler(NotInitializedError))
            /\ UNCHANGED <<projects, blockNumber, auditLog>>
       ELSE IF reqs[r].subsidyAmount = Missing
       THEN /\ Respond(r, errorHandler(MissingFieldError))
            /\ UNCHANGED <<projects, blockNumber, auditLog>>
       ELSE /\ FreeProjectIds(projects) # {}
            /\ projects' = ContractRegisterProject(projects, walletAddress("producer2"),
                                                   reqs[r].subsidyAmount)
            /\ blockNumber' = blockNumber + 1
            /\ auditLog' = Append(auditLog,
                   AuditEntry("PROJECT_REGISTERED", reqs[r].user,
                              NextId(FreeProjectIds(projects))))
            /\ Respond(r, 201)
    /\ PaymentsUnchanged /\ UsersUnchanged /\ UNCHANGED <<integration, services, initialized, milestones, oracleData>>

\* `body('status').isIn([...])`
validStatusBody(status) == \E i \in DOMAIN ProjectStatusNames : ProjectStatusNames[i] = status

\* the statuses the set-status requests of the model ask for
StatusInputs == {"Active", "Completed", "Cancelled", "Archived"}

\* PUT /api/projects/:id/status, up to the first await
StartSetProjectStatus(r) ==
    /\ reqs[r].pc = "idle"
    /\ IF r = 1 THEN TRUE ELSE reqs[r - 1].pc # "idle"
    /\ \E u \in Principals, projectId \in ProjectIds, status \in StatusInputs :
         LET req == [IdleRequest EXCEPT !.kind = "setProjectStatus", !.user = u,
                                        !.projectId = projectId, !.newStatus = status]
         IN  reqs' = [reqs EXCEPT ![r] =
                 IF ~authorize({"government"}, u) THEN Answered(req, 403)
                 ELSE IF ~validStatusBody(status) THEN Answered(req, 400)
                 ELSE [req EXCEPT !.pc = "getProject"]]
    /\ LedgerUnchanged /\ UsersUnchanged /\ PaymentsUnchanged /\ UNCHANGED auditLog

\* The catch block of the project routes.
projectRouteCatch(error) ==
    IF "does not exist" \in error.msg THEN NotFoundError ELSE error

\* `await blockchainService.getProject(projectId)` and the rest of the
\* handler: the new status is written to the audit log and to nothing else.
SetStatusGetProject(r) ==
    /\ reqs[r].kind = "setProjectStatus" /\ reqs[r].pc = "getProject"
    /\ LET p == getProject(reqs[r].projectId)
       IN  IF ~p.ok
           THEN Respond(r, errorHandler(projectRouteCatch(p.error))) /\ UNCHANGED auditLog
           ELSE /\ auditLog' = Append(auditLog,
                       AuditEntry("PROJECT_STATUS_UPDATED", reqs[r].user, reqs[r].projectId))
                /\ Respond(r, 200)
    /\ LedgerUnchanged /\ UsersUnchanged /\ PaymentsUnchanged

\* ---------------------------------------------------------- routes/oracle
\* `body('value').isInt({ min: 0 })`
validDataBody(value) == value >= 0

\* POST /api/oracle/data, up to the first await
StartSubmitData(r) ==
    /\ reqs[r].pc = "idle"
    /\ IF r = 1 THEN TRUE ELSE reqs[r - 1].pc # "idle"
    /\ \E u \in Principals, value \in {-1, MaxValue} :
         LET req == [IdleRequest EXCEPT !.kind = "submitData", !.user = u,
                                        !.actualValue = value]
         IN  reqs' = [reqs EXCEPT ![r] =
                 IF ~authorize({"oracle"}, u) THEN Answered(req, 403)
                 ELSE IF ~validDataBody(value) THEN Answered(req, 400)
                 ELSE [req EXCEPT !.pc = "submitOracleData"]]
    /\ LedgerUnchanged /\ UsersUnchanged /\ PaymentsUnchanged /\ UNCHANGED auditLog

\* blockchainService.submitOracleData and the rest of the handler
SubmitOracleData(r) ==
    /\ reqs[r].kind = "submitData" /\ reqs[r].pc = "submitOracleData"
    /\ IF ~initialized
       THEN /\ Respond(r, errorHandler(NotInitializedError))
            /\ UNCHANGED <<oracleData, blockNumber, auditLog>>
       ELSE /\ oracleData' = Append(oracleData, reqs[r].actualValue)
            /\ blockNumber' = blockNumber + 1
            /\ auditLog' = Append(auditLog,
                   AuditEntry("ORACLE_DATA_SUBMITTED", reqs[r].user, 0))
            /\ Respond(r, 201)
    /\ PaymentsUnchanged /\ UsersUnchanged /\ UNCHANGED <<integration, services, initialized, milestones, projects>>

\* ------------------------------------------------------------ routes/auth
\* the demo password the handlers compare with
DemoPassword == "password123"

Passwords == {DemoPassword, "secret456"}

PasswordLength(password) ==
    CASE password = "short" -> 5 [] password = "secret456" -> 9 [] OTHER -> 11

RegisterPasswordMin == 8

\* registerValidation (the body is valid but for the password)
validRegisterBody(password) == PasswordLength(password) >= RegisterPasswordMin

\* the accounts the requests of the model name: a seeded one and a new one
AccountInputs == {"producer", "new"}

\* `users.find(u => u.email === email || u.walletAddress === walletAddress)`
existingUser(email, wallet) ==
    \E i \in DOMAIN users :
        users[i].email = email \/ users[i].walletAddress = wallet

\* POST /api/auth/register, up to `await bcrypt.hash(password, 10)`.  New
\* users are registered as producers.
StartRegister(r) ==
    /\ reqs[r].pc = "idle"
    /\ IF r = 1 THEN TRUE ELSE reqs[r - 1].pc # "idle"
    /\ \E u \in Principals, email \in AccountInputs, wallet \in AccountInputs,
          password \in Passwords \cup {"short"} :
         LET req == [IdleRequest EXCEPT !.kind = "register", !.user = u,
                                        !.email = email, !.password = password,
                                        !.walletAddress = wallet]
         IN  reqs' = [reqs EXCEPT ![r] =
                 IF ~validRegisterBody(password) THEN Answered(req, 400)
                 ELSE IF roleOf(u) # "government" THEN Answered(req, 403)
                 ELSE IF existingUser(email, wallet) THEN Answered(req, 409)
                 ELSE [req EXCEPT !.pc = "hash"]]
    /\ LedgerUnchanged /\ UsersUnchanged /\ PaymentsUnchanged /\ UNCHANGED auditLog

\* the rest of the register handler: users.push(newUser), audit, 201
RegisterPush(r) ==
    /\ reqs[r].kind = "register" /\ reqs[r].pc = "hash"
    /\ users' = Append(users,
           [id |-> Len(users) + 1, email |-> reqs[r].email,
            password |-> bcryptHash(reqs[r].password), role |-> "producer",
            name |-> reqs[r].email, walletAddress |-> reqs[r].walletAddress])
    /\ auditLog' = Append(auditLog, AuditEntry("USER_REGISTERED", reqs[r].user, 0))
    /\ Respond(r, 201)
    /\ LedgerUnchanged /\ PaymentsUnchanged

\* `users.find(u => u.email === email)`
userByEmail(email) == {i \in DOMAIN users : users[i].email = email}

\* `const isValidPassword = password === 'password123'`
isValidPassword(password) == password = DemoPassword

\* POST /api/auth/login: the whole handler (it awaits nothing).  The answer
\* keeps the credentials that were sent.
Login(r) ==
    /\ reqs[r].pc = "idle"
    /\ IF r = 1 THEN TRUE ELSE reqs[r - 1].pc # "idle"
    /\ \E email \in AccountInputs, password \in Passwords :
         LET req == [IdleRequest EXCEPT !.kind = "login", !.user = "none"]
             ok == userByEmail(email) # {} /\ isValidPassword(password)
         IN  /\ reqs' = [reqs EXCEPT ![r] =
                    [Answered(req, IF ok THEN 200 ELSE 401) EXCEPT
                        !.email = email, !.password = password]]
             /\ auditLog' = IF ok
                            THEN Append(auditLog, AuditEntry("USER_LOGIN", email, 0))
                            ELSE auditLog
    /\ LedgerUnchanged /\ UsersUnchanged /\ PaymentsUnchanged

\* `users.find(u => u.id === req.user.id)`
userById(id) == {i \in DOMAIN users : users[i].id = id}

\* POST /api/auth/change-password, up to `await bcrypt.hash(newPassword, 10)`
StartChangePassword(r) ==
    /\ reqs[r].pc = "idle"
    /\ IF r = 1 THEN TRUE ELSE reqs[r - 1].pc # "idle"
    /\ \E u \in Principals, currentPassword \in Passwords, newPassword \in Passwords :
         LET req == [IdleRequest EXCEPT !.kind = "changePassword", !.user = u,
                                        !.password = newPassword]
         IN  reqs' = [reqs EXCEPT ![r] =
                 IF userById(userId(u)) = {} THEN Answered(req, 404)
                 ELSE IF ~isValidPassword(currentPassword) THEN Answered(req, 401)
                 ELSE [req EXCEPT !.pc = "hash"]]
    /\ LedgerUnchanged /\ UsersUnchanged /\ PaymentsUnchanged /\ UNCHANGED auditLog

\* `user.password = <the hash>`, audit, answer
ChangePasswordStore(r) ==
    /\ reqs[r].kind = "changePassword" /\ reqs[r].pc = "hash"
    /\ LET i == CHOOSE i \in userById(userId(reqs[r].user)) :
                    \A j \in userById(userId(reqs[r].user)) : i <= j
       IN  users' = [users EXCEPT ![i].password = bcryptHash(reqs[r].password)]
    /\ auditLog' = Append(auditLog, AuditEntry("PASSWORD_CHANGED", reqs[r].user, 0))
    /\ Respond(r, 200)
    /\ LedgerUnchanged /\ PaymentsUnchanged

\* The fields a profile update can carry; "none" is a body without the field.
NameInputs == {"none", "renamed"}

WalletInputs == {"none", walletAddress("auditor"), "unused"}

\* `users.find(u => u.walletAddress === walletAddress && u.id !== user.id)`
walletInUse(us, wallet, id) ==
    \E j \in DOMAIN us : us[j].walletAddress = wallet /\ us[j].id # id

\* PUT /api/auth/profile: the whole handler (it awaits nothing).  The name
\* is assigned before the wallet address is looked up.
UpdateProfile(r) ==
    /\ reqs[r].pc = "idle"
    /\ IF r = 1 THEN TRUE ELSE reqs[r - 1].pc # "idle"
    /\ \E u \in Principals, name \in NameInputs, wallet \in WalletInputs :
         LET req == [IdleRequest EXCEPT !.kind = "updateProfile", !.user = u]
             found == userById(userId(u))
             i == CHOOSE i \in found : \A j \in found : i <= j
             named == IF name # "none" THEN [users EXCEPT ![i].name = name] ELSE users
         IN  IF found = {}
             THEN /\ reqs' = [reqs EXCEPT ![r] = Answered(req, 404)]
                  /\ UNCHANGED <<users, auditLog>>
             ELSE IF wallet # "none" /\ walletInUse(named, wallet, named[i].id)
             THEN /\ users' = named
                  /\ reqs' = [reqs EXCEPT ![r] = Answered(req, 409)]
                  /\ UNCHANGED auditLog
             ELSE /\ users' = IF wallet # "none"
                              THEN [named EXCEPT ![i].walletAddress = wallet]
                              ELSE named
                  /\ auditLog' = Append(auditLog,
                         AuditEntry("USER_PROFILE_UPDATED", u, 0))
                  /\ reqs' = [reqs EXCEPT ![r] = Answered(req, 200)]
    /\ LedgerUnchanged /\ PaymentsUnchanged

\* GET /api/auth/profile: the whole handler
GetProfile(r) ==
    /\ reqs[r].pc = "idle"
    /\ IF r = 1 THEN TRUE ELSE reqs[r - 1].pc # "idle"
    /\ \E u \in Principals :
         LET req == [IdleRequest EXCEPT !.kind = "profile", !.user = u]
         IN  reqs' = [reqs EXCEPT ![r] =
                 IF userById(userId(u)) = {} THEN Answered(req, 404)
                 ELSE Answered(req, 200)]
    /\ LedgerUnchanged /\ UsersUnchanged /\ PaymentsUnchanged /\ UNCHANGED auditLog

\* GET /api/audit/logs: the whole handler (it answers an empty list)
GetAuditLogs(r) ==
    /\ reqs[r].pc = "idle"
    /\ IF r = 1 THEN TRUE ELSE reqs[r - 1].pc # "idle"
    /\ \E u \in Principals :
         LET req == [IdleRequest EXCEPT !.kind = "auditLogs", !.user = u]
         IN  reqs' = [reqs EXCEPT ![r] =
                 IF ~authorize({"government", "auditor"}, u) THEN Answered(req, 403)
                 ELSE Answered(req, 200)]
    /\ LedgerUnchanged /\ UsersUnchanged /\ PaymentsUnchanged /\ UNCHANGED auditLog

\* ------------------------------------------------------- authenticateToken
\* A request arrives with its Authorization header.
Receive(r) ==
    /\ reqs[r].pc = "idle" /\ reqs[r].authorization = Unread
    /\ IF r = 1 THEN TRUE ELSE reqs[r - 1].pc # "idle"
    /\ \E header \in Headers :
         reqs' = [reqs EXCEPT ![r] = [@ EXCEPT !.authorization = header]]
    /\ LedgerUnchanged /\ UsersUnchanged /\ PaymentsUnchanged /\ UNCHANGED auditLog

\* authenticateToken answers the request itself: next() is not called
AuthenticateRejects(r) ==
    /\ reqs[r].pc = "idle" /\ reqs[r].authorization # Unread
    /\ LET a == authenticateToken(reqs[r].authorization)
       IN  /\ a.status # 0
           /\ reqs' = [reqs EXCEPT ![r] =
                  [Answered(IdleRequest, a.status) EXCEPT
                      !.last = "authenticateToken",
                      !.authorization = reqs[r].authorization]]
    /\ LedgerUnchanged /\ UsersUnchanged /\ PaymentsUnchanged /\ UNCHANGED auditLog

\* authenticateToken sets req.user and calls next(): the router runs in the
\* same step, for the user of the token
AuthenticatePasses(r) ==
    /\ reqs[r].authorization # Unread
    /\ LET a == authenticateToken(reqs[r].authorization)
       IN  a.status = 0 /\ reqs'[r].user = a.user

ResolutionMin == 10

ResolutionMax == 1000

\* validateRequest of POST /:id/resolve-dispute (reasonLength holds the
\* length of the trimmed resolution text)
validResolveBody(resolutionLength) ==
    resolutionLength >= ResolutionMin /\ resolutionLength <= ResolutionMax

\* POST /:id/resolve-dispute, up to the first await
StartResolveDispute(r) ==
    /\ reqs[r].pc = "idle"
    /\ IF r = 1 THEN TRUE ELSE reqs[r - 1].pc # "idle"
    /\ \E u \in Principals, id \in MilestoneIds, approved \in BOOLEAN,
          len \in {ResolutionMin - 1, ResolutionMin} :
         LET req == [IdleRequest EXCEPT !.kind = "resolveDispute", !.user = u, !.id = id,
                                        !.approved = approved, !.reasonLength = len]
         IN  reqs' = [reqs EXCEPT ![r] =
                 IF ~authorize({"auditor"}, u) THEN Answered(req, 403)
                 ELSE IF ~validResolveBody(len) THEN Answered(req, 400)
                 ELSE [req EXCEPT !.pc = "getMilestone"]]
    /\ LedgerUnchanged /\ UsersUnchanged /\ PaymentsUnchanged /\ UNCHANGED auditLog

\* `if (milestone.status !== 'Disputed') return res.status(400)`
resolveRejects(status) == status # "Disputed"

\* `await blockchainService.getMilestone(milestoneId)` and the rest of the
\* handler: the resolution is written to the audit log and to nothing else.
ResolveGetMilestone(r) ==
    /\ reqs[r].kind = "resolveDispute" /\ reqs[r].pc = "getMilestone"
    /\ LET m == getMilestone(reqs[r].id)
       IN  IF ~m.ok
           THEN Respond(r, errorHandler(routeCatch(m.error))) /\ UNCHANGED auditLog
           ELSE IF resolveRejects(m.status)
           THEN /\ reqs' = [reqs EXCEPT ![r] =
                              Answered([@ EXCEPT !.seenStatus = m.status], 400)]
                /\ UNCHANGED auditLog
           ELSE /\ reqs' = [reqs EXCEPT ![r] =
                              Answered([@ EXCEPT !.seenStatus = m.status], 200)]
                /\ auditLog' = Append(auditLog,
                       AuditEntry("DISPUTE_RESOLVED", reqs[r].user, reqs[r].id))
    /\ LedgerUnchanged /\ UsersUnchanged /\ PaymentsUnchanged

\* -------------------------------------------------- PaymentGatewayService
\* this.gateways: the configured payment methods
Gateways == {"stripe", "paypal", "ach", "wire", "crypto"}

\* The methods the calls of the model ask for: a configured one and one that
\* is not configured.
RequestedMethods == {"ach", "cheque"}

\* an id made of the project and the milestone alone
generatePaymentId_perMilestone(milestoneId, projectId, nonce) == <<projectId, milestoneId, 0>>

\* generatePaymentId: PAY_<projectId>_<milestoneId>_<Date.now()>_<random>.
\* The last two parts differ from call to call; nonce stands for them.
generatePaymentId(milestoneId, projectId, nonce) == <<projectId, milestoneId, nonce>>

\* What a gateway call can throw: no answer or a 5xx answer, and two 4xx
\* answers.
GatewayErrors == {"GatewayUnavailable", "InvalidBeneficiary", "InsufficientFunds"}

\* `throw new Error(`Unsupported payment method: ${method}`)`
UnsupportedMethodError == "UnsupportedMethod"

\* retryConfig
baseDelay == 1000

maxDelay == 30000

Min(a, b) == IF a <= b THEN a ELSE b

\* a backoff that does not double
retryDelay_flat(attempt) == baseDelay

\* `Math.min(baseDelay * Math.pow(2, attempt - 1), maxDelay)`
retryDelay(attempt) == Min(baseDelay * 2 ^ (attempt - 1), maxDelay)

\* A processPayment call: attempt counts the gateway calls made, delays are
\* the waits between them, error is the last error thrown.
IdlePayment ==
    [pc |-> "idle", milestoneId |-> 1, method |-> "ach", retryOnFailure |-> FALSE,
     paymentId |-> <<0, 0, 0>>, attempt |-> 0, outcome |-> "none", gatewayReference |-> 0,
     error |-> "none", delays |-> <<>>]

\* Map.set
MapSet(map, key, value) == {e \in map : e.paymentId # key} \cup {value}

PaymentStatus(pay, status, reference) ==
    [paymentId |-> pay.paymentId, status |-> status, method |-> pay.method,
     milestoneId |-> pay.milestoneId, gatewayReference |-> reference,
     error |-> IF status = "failed" THEN pay.error ELSE "none"]

\* The catch block of processPayment: store the failure, scheduleRetry when
\* asked to, rethrow.
PaymentFails(p, pay) ==
    /\ paymentStatuses' = MapSet(paymentStatuses, pay.paymentId,
                                 PaymentStatus(pay, "failed", 0))
    /\ scheduledPayments' = IF pay.retryOnFailure
                            THEN scheduledPayments \cup {pay.paymentId}
                            ELSE scheduledPayments
    /\ pays' = [pays EXCEPT ![p] = [pay EXCEPT !.pc = "done", !.outcome = "failed"]]

\* processPayment, up to the first await: the payment id, the method check
\* and the first request to the gateway.  Neither the ledger nor
\* paymentStatuses is consulted.
StartPayment(p) ==
    /\ pays[p].pc = "idle"
    /\ IF p = 1 THEN TRUE ELSE pays[p - 1].pc # "idle"
    /\ \E id \in MilestoneIds, method \in RequestedMethods, retry \in BOOLEAN :
         LET pay == [IdlePayment EXCEPT
                        !.milestoneId = id, !.method = method, !.retryOnFailure = retry,
                        !.paymentId = generatePaymentId(id, ProjectId, nextNonce)]
         IN  IF method \notin Gateways
             THEN PaymentFails(p, [pay EXCEPT !.error = UnsupportedMethodError])
             ELSE /\ pays' = [pays EXCEPT ![p] = [pay EXCEPT !.pc = "attempt", !.attempt = 1]]
                  /\ UNCHANGED <<paymentStatuses, scheduledPayments>>
    /\ nextNonce' = nextNonce + 1
    /\ LedgerUnchanged /\ UsersUnchanged /\ UNCHANGED <<reqs, auditLog, transfers>>

\* The gateway executes the transfer and answers; processPayment stores the
\* completed status and writes the audit entry.
PaymentAttemptSucceeds(p) ==
    /\ pays[p].pc = "attempt"
    /\ LET id == pays[p].milestoneId
           reference == transfers[id] + 1
       IN  /\ transfers' = [transfers EXCEPT ![id] = reference]
           /\ paymentStatuses' = MapSet(paymentStatuses, pays[p].paymentId,
                                        PaymentStatus(pays[p], "completed", reference))
           /\ pays' = [pays EXCEPT ![p] = [@ EXCEPT !.pc = "done", !.outcome = "completed",
                                                    !.gatewayReference = reference]]
           /\ auditLog' = Append(auditLog, AuditEntry("PAYMENT_COMPLETED", "null", id))
    /\ LedgerUnchanged /\ UsersUnchanged /\ UNCHANGED <<reqs, scheduledPayments, nextNonce>>

\* The gateway call throws.  processWithRetry tries again after the backoff
\* delay until attempt reaches maxAttempts, then the error reaches the catch
\* block of processPayment.
PaymentAttemptThrows(p) ==
    /\ pays[p].pc = "attempt"
    /\ \E error \in GatewayErrors :
         IF pays[p].attempt >= maxAttempts
         THEN PaymentFails(p, [pays[p] EXCEPT !.error = error])
         ELSE /\ pays' = [pays EXCEPT ![p] =
                     [@ EXCEPT !.attempt = @ + 1, !.error = error,
                               !.delays = Append(@, retryDelay(pays[p].attempt))]]
              /\ UNCHANGED <<paymentStatuses, scheduledPayments>>
    /\ LedgerUnchanged /\ UsersUnchanged /\ UNCHANGED <<reqs, auditLog, transfers, nextNonce>>

\* ------------------------------------------------------ recurring payments
\* Dates are days; NoDate is the `null` of a schedule without endDate.
NoDate == 0

Frequencies == {"daily", "weekly"}

\* calculateNextPaymentDate, for the frequencies that are a number of days
calculateNextPaymentDate(currentDate, frequency) ==
    IF frequency = "daily" THEN currentDate + 1 ELSE currentDate + 7

\* The schedule scheduledPayments holds under the schedule's id, the clock
\* (now), and the processPayment calls scheduleNextPayment issued: the due
\* date each was issued for and the day it was issued.
IdleRecurring ==
    [present |-> FALSE, isActive |-> FALSE, frequency |-> "daily",
     startDate |-> NoDate, endDate |-> NoDate, nextPayment |-> NoDate,
     now |-> 2, issued |-> <<>>]

\* scheduleNextPayment: a due payment is issued (processPayment is called
\* and not awaited) and the next date computed, again and again until the
\* next date is in the future or after endDate.  Nothing is set up to call
\* it later.
RECURSIVE scheduleNextPayment(_)
scheduleNextPayment(schedule) ==
    IF ~schedule.present \/ ~schedule.isActive THEN schedule
    ELSE IF schedule.nextPayment <= schedule.now
    THEN LET next == calculateNextPaymentDate(schedule.nextPayment, schedule.frequency)
             paid == [schedule EXCEPT
                        !.issued = Append(@, [due |-> schedule.nextPayment,
                                              at |-> schedule.now]),
                        !.nextPayment = next]
         IN  IF schedule.endDate # NoDate /\ next > schedule.endDate
             THEN [paid EXCEPT !.isActive = FALSE]
             ELSE scheduleNextPayment(paid)
    ELSE schedule

RecurringUnchanged ==
    UNCHANGED <<integration, initialized, milestones, projects, oracleData, blockNumber,
                users, reqs, auditLog, pays, paymentStatuses, scheduledPayments,
                transfers, nextNonce, iot, trail>>

\* scheduleRecurringPayment(scheduleData)
ScheduleRecurringPayment ==
    /\ ~recurring.present
    /\ \E frequency \in Frequencies, startDate \in 1..3 :
       \E endDate \in {NoDate} \cup startDate..MaxDay :
         recurring' = scheduleNextPayment(
             [recurring EXCEPT !.present = TRUE, !.isActive = TRUE,
                               !.frequency = frequency, !.startDate = startDate,
                               !.endDate = endDate, !.nextPayment = startDate])
    /\ RecurringUnchanged

\* a day passes
DayPasses ==
    /\ recurring.now < MaxDay
    /\ recurring' = [recurring EXCEPT !.now = @ + 1]
    /\ RecurringUnchanged

\* ------------------------------------------------- DataIntegrationService
\* A source of an aggregation call: its type, whether its platform answers,
\* and the total the platform reports.
SourceTypes == {"iot", "government", "third_party", "satellite"}

Sources == [type : SourceTypes, answers : BOOLEAN, total : Values]

SourceLists == UNION {[1..n -> Sources] : n \in 0..MaxSources}

\* What the promise of one source settles with.  getIoTProductionData
\* returns summary.totalProduction, getGovernmentEnergyData a summary with
\* totalRenewableEnergy, getThirdPartyVerification no summary at all; an
\* unsupported type and a platform that does not answer end in the catch,
\* which returns `{ error, sourceId }`.
NoSummary == -1

sourceResult(source) ==
    IF source.type = "satellite" \/ ~source.answers
    THEN [error |-> TRUE, totalProduction |-> NoSummary]
    ELSE IF source.type = "iot"
    THEN [error |-> FALSE, totalProduction |-> source.total]
    ELSE [error |-> FALSE, totalProduction |-> NoSummary]

\* a filter that lets failed sources through
isValidResult_all(result) == TRUE

\* `r.status === 'fulfilled' && !r.value.error`
isValidResult(result) == ~result.error

RECURSIVE reduceTotalProduction(_, _)
\* validResults.reduce(...): a result adds its summary.totalProduction when
\* it has a summary and the total is not 0
reduceTotalProduction(results, i) ==
    IF i > Len(results) THEN 0
    ELSE (IF isValidResult(results[i]) /\ results[i].totalProduction # NoSummary
          THEN results[i].totalProduction ELSE 0)
         + reduceTotalProduction(results, i + 1)

\* `(validResults.length / sources.length) * 100`, kept as a fraction; 0 / 0
\* is NaN
dataReliability(valid, total) ==
    IF total = 0 THEN [nan |-> TRUE, num |-> 0, den |-> 1]
    ELSE [nan |-> FALSE, num |-> valid * 100, den |-> total]

\* getAggregatedProductionData: what it returns (it throws nothing)
getAggregatedProductionData(sources) ==
    LET results == [i \in DOMAIN sources |-> sourceResult(sources[i])]
        valid == {i \in DOMAIN results : isValidResult(results[i])}
    IN  [threw |-> FALSE,
         totalProduction |-> reduceTotalProduction(results, 1),
         sourcesUsed |-> Cardinality(valid),
         dataReliability |-> dataReliability(Cardinality(valid), Len(sources))]

IdleAggregation == [pc |-> "idle", sources |-> <<>>, returned |-> "none"]

\* one call of getAggregatedProductionData
Aggregate ==
    /\ aggregation.pc = "idle"
    /\ \E sources \in SourceLists :
         aggregation' = [pc |-> "done", sources |-> sources,
                         returned |-> getAggregatedProductionData(sources)]
    /\ UNCHANGED <<cache, clock, calls>>
    /\ LedgerCoreUnchanged /\ UsersUnchanged /\ PaymentsUnchanged /\ UNCHANGED <<reqs, auditLog>>

\* The cache keys the calls of the model use, and the ttlSeconds the callers
\* of a key pass with it.
CacheKeys == {"iot:1", "government:1"}

ttlOf(key) == IF key = "iot:1" THEN 1 ELSE 2

\* milliseconds in a second (`ttlSeconds * 1000`); the clock advances by it
SecondMs == 1000

NoEntry == [present |-> FALSE, data |-> 0, expiresAt |-> 0]

\* fetchFunction returns the data of the moment: `data` is the time of the
\* fetch
IdleCall == [pc |-> "idle", key |-> "none", ttlSeconds |-> 0, outcome |-> "none",
             returned |-> 0]

\* a check that still serves the entry at its expiry
isFresh_atExpiry(cached, now) == cached.present /\ cached.expiresAt >= now

\* `cached && cached.expiresAt > Date.now()`
isFresh(cached, now) == cached.present /\ cached.expiresAt > now

\* getCachedData, up to `await fetchFunction()`
StartGetCached(c) ==
    /\ calls[c].pc = "idle"
    /\ IF c = 1 THEN TRUE ELSE calls[c - 1].pc # "idle"
    /\ \E key \in CacheKeys :
         LET call == [IdleCall EXCEPT !.key = key, !.ttlSeconds = ttlOf(key)]
         IN  calls' = [calls EXCEPT ![c] =
                 IF isFresh(cache[key], clock)
                 THEN [call EXCEPT !.pc = "done", !.outcome = "hit",
                                   !.returned = cache[key].data]
                 ELSE [call EXCEPT !.pc = "fetch"]]
    /\ UNCHANGED <<aggregation, cache, clock>>
    /\ LedgerCoreUnchanged /\ UsersUnchanged /\ PaymentsUnchanged /\ UNCHANGED <<reqs, auditLog>>

\* fetchFunction resolves: cacheStore.set and return
FetchReturns(c) ==
    /\ calls[c].pc = "fetch"
    /\ cache' = [cache EXCEPT ![calls[c].key] =
                    [present |-> TRUE, data |-> clock,
                     expiresAt |-> clock + calls[c].ttlSeconds * SecondMs]]
    /\ calls' = [calls EXCEPT ![c] =
                    [@ EXCEPT !.pc = "done", !.outcome = "fetched", !.returned = clock]]
    /\ UNCHANGED <<aggregation, clock>>
    /\ LedgerCoreUnchanged /\ UsersUnchanged /\ PaymentsUnchanged /\ UNCHANGED <<reqs, auditLog>>

\* fetchFunction rejects: the error is logged and rethrown
FetchThrows(c) ==
    /\ calls[c].pc = "fetch"
    /\ calls' = [calls EXCEPT ![c] = [@ EXCEPT !.pc = "done", !.outcome = "threw"]]
    /\ UNCHANGED <<aggregation, cache, clock>>
    /\ LedgerCoreUnchanged /\ UsersUnchanged /\ PaymentsUnchanged /\ UNCHANGED <<reqs, auditLog>>

\* cleanExpiredCache, when it has something to clean
CleanExpiredCache ==
    /\ \E key \in CacheKeys : cache[key].present /\ cache[key].expiresAt <= clock
    /\ cache' = [key \in CacheKeys |->
                    IF cache[key].present /\ cache[key].expiresAt <= clock
                    THEN NoEntry ELSE cache[key]]
    /\ UNCHANGED <<aggregation, clock, calls>>
    /\ LedgerCoreUnchanged /\ UsersUnchanged /\ PaymentsUnchanged /\ UNCHANGED <<reqs, auditLog>>

\* a second passes
Tick ==
    /\ clock < MaxTicks * SecondMs
    /\ clock' = clock + SecondMs
    /\ UNCHANGED <<aggregation, cache, calls>>
    /\ LedgerCoreUnchanged /\ UsersUnchanged /\ PaymentsUnchanged /\ UNCHANGED <<reqs, auditLog>>

\* ---------------------------------------------------------- SecurityService
\* A value of a record is the sequence of its tokens; JSON.stringify of a
\* record is the keys in insertion order, each followed by its value.
Null == <<"null">>

RECURSIVE stringify(_, _)
stringify(keys, values) ==
    IF keys = <<>> THEN <<>>
    ELSE <<Head(keys)>> \o values[Head(keys)] \o stringify(Tail(keys), values)

\* createChecksum: the SHA-256 digest of the string, taken as free of
\* collisions: equal digests are digests of equal strings
createChecksum(dataString) == <<"sha256">> \o dataString

\* the keys of an audit record, in the order createAuditTrail writes them
AuditKeys ==
    <<"id", "action", "userId", "resourceType", "resourceId",
      "oldData", "newData", "timestamp", "checksum">>

\* `const { checksum, ...recordWithoutChecksum } = auditRecord`
WithoutChecksum(keys) == SelectSeq(keys, LAMBDA k : k # "checksum")

Payloads == {<<"status", "Pending">>, <<"status", "Verified">>}

AuditValues == {Null, <<"MILESTONE_VERIFIED">>, <<"7">>} \cup Payloads

\* createAuditTrail: the record with `checksum: null` is digested, and the
\* digest is then stored under checksum
createAuditTrail(id, action, byUser, resourceType, resourceId, oldData, newData, timestamp) ==
    LET auditRecord ==
            [k \in {AuditKeys[i] : i \in DOMAIN AuditKeys} |->
                CASE k = "id" -> id
                  [] k = "action" -> action
                  [] k = "userId" -> byUser
                  [] k = "resourceType" -> resourceType
                  [] k = "resourceId" -> resourceId
                  [] k = "oldData" ->
                        IF oldData # Null THEN createChecksum(oldData) ELSE Null
                  [] k = "newData" ->
                        IF newData # Null THEN createChecksum(newData) ELSE Null
                  [] k = "timestamp" -> timestamp
                  [] OTHER -> Null]
    IN  [auditRecord EXCEPT !["checksum"] = createChecksum(stringify(AuditKeys, auditRecord))]

\* verifyAuditTrail
verifyAuditTrail(auditRecord) ==
    auditRecord["checksum"] = createChecksum(stringify(WithoutChecksum(AuditKeys), auditRecord))

IdleTrail == [pc |-> "idle", record |-> <<>>, changed |-> FALSE, result |-> FALSE]

TrailUnchanged ==
    UNCHANGED <<integration, initialized, milestones, projects, oracleData, blockNumber,
                users, reqs, auditLog, pays, paymentStatuses, scheduledPayments,
                transfers, nextNonce, iot, recurring>>

\* a caller creates an audit record
CreateAuditTrail ==
    /\ trail.pc = "idle"
    /\ \E action \in {<<"MILESTONE_VERIFIED">>, <<"PAYMENT_COMPLETED">>},
          byUser \in {<<"3">>, <<"4">>}, oldData \in Payloads \cup {Null},
          newData \in Payloads \cup {Null} :
         trail' = [trail EXCEPT
                     !.pc = "created",
                     !.record = createAuditTrail(<<"uuid">>, action, byUser, <<"milestone">>,
                                                 <<"1">>, oldData, newData, <<"now">>)]
    /\ TrailUnchanged

\* a field of the stored record other than checksum is changed
ChangeField ==
    /\ trail.pc = "created" /\ ~trail.changed
    /\ \E i \in DOMAIN WithoutChecksum(AuditKeys), v \in AuditValues :
         LET k == WithoutChecksum(AuditKeys)[i]
         IN  /\ v # trail.record[k]
             /\ trail' = [trail EXCEPT !.record[k] = v, !.changed = TRUE]
    /\ TrailUnchanged

\* a caller verifies the record
VerifyAuditTrail ==
    /\ trail.pc = "created"
    /\ trail' = [trail EXCEPT !.pc = "verified", !.result = verifyAuditTrail(trail.record)]
    /\ TrailUnchanged

\* ---------------------------------------------------- IoTIntegrationService
reconnectInterval == 5000

maxReconnectAttempts == 5

\* the configured devices
Devices == {"D1"}

\* An entry of `connections`: the socket whose handler wrote it, the status
\* and reconnectAttempts, 0 for a record that has no such field
\* (`undefined >= 5` is false and `(undefined || 0) + 1` is 1).
NoConnection == [present |-> FALSE, ws |-> 0, status |-> "none", reconnectAttempts |-> 0]

Connection(ws, status) ==
    [present |-> TRUE, ws |-> ws, status |-> status, reconnectAttempts |-> 0]

\* The service after its constructor.  sockets are the WebSocket objects
\* addDevice created, by state; timers the pending setTimeout of
\* scheduleReconnect; pollers the setInterval of startPolling.  scheduled
\* (the delays of the reconnects scheduled since the device last connected),
\* stopped and afterStop (what the service did after stop()) are history.
IdleIoT ==
    [isRunning |-> FALSE,
     connections |-> [d \in Devices |-> NoConnection],
     deviceData |-> [d \in Devices |-> FALSE],
     sockets |-> [d \in Devices |-> <<>>],
     timers |-> [d \in Devices |-> 0],
     pollers |-> [d \in Devices |-> 0],
     scheduled |-> [d \in Devices |-> <<>>],
     stopped |-> FALSE,
     afterStop |-> {}]

Did(svc, what) ==
    [svc EXCEPT !.afterStop = IF svc.stopped THEN @ \cup what ELSE @]

\* ws.close(): an open socket closes, a connecting one aborts (it emits
\* 'error', then 'close'), any other has closed or is closing already.
closeSocket(state) ==
    IF state = "open" THEN "closing"
    ELSE IF state = "connecting" THEN "aborting"
    ELSE state

\* addDevice: `new WebSocket(endpoint)` with its four handlers, the
\* verification rules and startPolling
addDevice(svc, d) ==
    Did([svc EXCEPT !.sockets[d] = Append(@, "connecting"),
                    !.pollers[d] = @ + 1],
        {"socket"})

\* `connections.set(deviceId, { ws, config, status })` of the handlers: a
\* new record, without reconnectAttempts
setConnection(svc, d, ws, status) ==
    Did([svc EXCEPT !.connections[d] = Connection(ws, status)], {"connection"})

\* scheduleReconnect
scheduleReconnect(svc, d) ==
    LET deviceInfo == svc.connections[d]
        attempts == deviceInfo.reconnectAttempts + 1
    IN  IF ~deviceInfo.present \/ deviceInfo.reconnectAttempts >= maxReconnectAttempts
        THEN svc
        ELSE Did([svc EXCEPT !.connections[d].reconnectAttempts = attempts,
                             !.timers[d] = @ + 1,
                             !.scheduled[d] = Append(@, reconnectInterval * attempts)],
                 {"reconnect"})

\* handleDeviceData with checkVerificationCriteria: data of an unknown
\* device is dropped; else it is stored, `milestoneVerification` is emitted
\* when a rule is met, and `deviceData` is emitted.
handleDeviceData(svc, d, meetsCriteria) ==
    IF ~svc.connections[d].present THEN svc
    ELSE Did([svc EXCEPT !.deviceData[d] = TRUE],
             {"deviceData"} \cup IF meetsCriteria THEN {"milestoneVerification"} ELSE {})

RECURSIVE addDevices(_, _)
addDevices(svc, ds) ==
    IF ds = {} THEN svc
    ELSE LET d == CHOOSE x \in ds : TRUE
         IN  addDevices(addDevice(svc, d), ds \ {d})

IoTUnchanged ==
    UNCHANGED <<integration, initialized, milestones, projects, oracleData, blockNumber,
                users, reqs, auditLog, pays, paymentStatuses, scheduledPayments,
                transfers, nextNonce, trail, recurring>>

\* initialize(deviceConfigs).  startHealthMonitoring reads lastHeartbeat,
\* which nothing writes, and changes nothing.
Initialize ==
    /\ ~iot.isRunning /\ ~iot.stopped
    /\ iot' = [addDevices(iot, Devices) EXCEPT !.isRunning = TRUE]
    /\ IoTUnchanged

\* ws.on('open')
SocketOpen(d, ws) ==
    /\ ws \in DOMAIN iot.sockets[d] /\ iot.sockets[d][ws] = "connecting"
    /\ iot' = [setConnection(iot, d, ws, "connected")
                  EXCEPT !.sockets[d][ws] = "open", !.scheduled[d] = <<>>]
    /\ IoTUnchanged

\* ws.on('message')
SocketMessage(d, ws) ==
    /\ ws \in DOMAIN iot.sockets[d] /\ iot.sockets[d][ws] = "open"
    /\ \E meetsCriteria \in BOOLEAN : iot' = handleDeviceData(iot, d, meetsCriteria)
    /\ IoTUnchanged

\* ws.on('error'); the socket emits 'close' next
SocketError(d, ws) ==
    /\ ws \in DOMAIN iot.sockets[d]
    /\ iot.sockets[d][ws] \in {"connecting", "aborting", "open"}
    /\ iot' = [setConnection(iot, d, ws, "error") EXCEPT !.sockets[d][ws] = "failed"]
    /\ IoTUnchanged

\* ws.on('close'): of a socket the peer closes, or after close() or 'error'
SocketClose(d, ws) ==
    /\ ws \in DOMAIN iot.sockets[d]
    /\ iot.sockets[d][ws] \in {"open", "closing", "failed"}
    /\ iot' = [scheduleReconnect(setConnection(iot, d, ws, "disconnected"), d)
                  EXCEPT !.sockets[d][ws] = "closed"]
    /\ IoTUnchanged

\* the setTimeout of scheduleReconnect fires: reconnectDevice
ReconnectTimer(d) ==
    /\ iot.timers[d] > 0
    /\ Len(iot.sockets[d]) < MaxSockets
    /\ LET deviceInfo == iot.connections[d]
           fired == [iot EXCEPT !.timers[d] = @ - 1]
       IN  iot' = IF ~deviceInfo.present THEN fired
                  ELSE addDevice([fired EXCEPT !.sockets[d][deviceInfo.ws] = closeSocket(@)], d)
    /\ IoTUnchanged

\* the setInterval of startPolling fires and axios.get answers
PollData(d) ==
    /\ iot.pollers[d] > 0
    /\ \E meetsCriteria \in BOOLEAN : iot' = handleDeviceData(iot, d, meetsCriteria)
    /\ IoTUnchanged

\* stop()
Stop ==
    /\ ~iot.stopped
    /\ iot' = [iot EXCEPT
                 !.isRunning = FALSE,
                 !.sockets = [d \in Devices |->
                                [ws \in DOMAIN iot.sockets[d] |->
                                   IF iot.connections[d].present /\ iot.connections[d].ws = ws
                                   THEN closeSocket(iot.sockets[d][ws])
                                   ELSE iot.sockets[d][ws]]],
                 !.connections = [d \in Devices |-> NoConnection],
                 !.deviceData = [d \in Devices |-> FALSE],
                 !.stopped = TRUE]
    /\ IoTUnchanged

\* ------------------------------------------------------------ read routes
\* The addresses a path or a query can carry; "invalid" fails
\* isEthereumAddress, "none" is a query without the parameter.
Addresses == {walletAddress("producer"), walletAddress("producer2")}

AddressInputs == Addresses \cup {"invalid", "none"}

\* contract getProducerProjects(address): the ids of the producer's projects
ContractProducerProjects(ps, address) ==
    {p \in ProjectIds : ps[p].exists /\ ps[p].producer = address}

\* contract getProjectMilestones(projectId): the ids of the project's milestones
ContractProjectMilestones(ms, projectId) ==
    {m \in MilestoneIds : ms[m].exists /\ ms[m].projectId = projectId}

\* a check that lets every producer read
viewForbidden_never(user, producer) == FALSE

\* `req.user.role === USER_ROLES.PRODUCER && project.producer !== req.user.walletAddress`
\* (and `producerAddress !== req.user.walletAddress` of GET /producer/:address)
viewForbidden(user, producer) ==
    roleOf(user) = "producer" /\ producer # walletAddress(user)

ReadRoles == {"government", "auditor", "producer"}

\* An answered read: the answered request with the path and query it came
\* with, and the data of its answer.
AnsweredRead(req, status, data) ==
    [Answered(req, status) EXCEPT !.projectId = req.projectId,
                                  !.walletAddress = req.walletAddress,
                                  !.path = req.path,
                                  !.json = data]

RespondRead(r, status, data) ==
    reqs' = [reqs EXCEPT ![r] = AnsweredRead(@, status, data)]

ReadUnchanged ==
    /\ LedgerUnchanged /\ UsersUnchanged /\ PaymentsUnchanged /\ UNCHANGED auditLog

\* GET /api/projects, up to its await.  Government and auditor without a
\* producer query get the empty list at once.
StartListProjects(r) ==
    /\ reqs[r].pc = "idle"
    /\ IF r = 1 THEN TRUE ELSE reqs[r - 1].pc # "idle"
    /\ \E u \in Principals, producer \in AddressInputs :
         LET req == [IdleRequest EXCEPT !.kind = "listProjects", !.user = u,
                                        !.walletAddress = producer]
         IN  reqs' = [reqs EXCEPT ![r] =
                 IF ~authorize(ReadRoles, u) THEN AnsweredRead(req, 403, NoData)
                 ELSE IF producer = "invalid" THEN AnsweredRead(req, 400, NoData)
                 ELSE IF roleOf(u) # "producer" /\ producer = "none"
                 THEN AnsweredRead(req, 200, NoData)
                 ELSE [req EXCEPT !.pc = "getProducerProjects"]]
    /\ ReadUnchanged

\* `await blockchainService.getProducerProjects(...)` of GET /api/projects:
\* req.user.walletAddress for a producer, the query's address for the others.
ListGetProducerProjects(r) ==
    /\ reqs[r].kind = "listProjects" /\ reqs[r].pc = "getProducerProjects"
    /\ LET address == IF roleOf(reqs[r].user) = "producer"
                      THEN walletAddress(reqs[r].user)
                      ELSE reqs[r].walletAddress
       IN  IF ~initialized
           THEN RespondRead(r, errorHandler(NotInitializedError), NoData)
           ELSE RespondRead(r, 200, [projects |-> ContractProducerProjects(projects, address),
                                milestones |-> {}])
    /\ ReadUnchanged

\* GET /api/projects/producer/:address, up to its await: the address is
\* compared before the ledger is read.
StartProducerProjects(r) ==
    /\ reqs[r].pc = "idle"
    /\ IF r = 1 THEN TRUE ELSE reqs[r - 1].pc # "idle"
    /\ \E u \in Principals, address \in AddressInputs \ {"none"} :
         LET req == [IdleRequest EXCEPT !.kind = "producerProjects", !.user = u,
                                        !.walletAddress = address]
         IN  reqs' = [reqs EXCEPT ![r] =
                 IF ~authorize(ReadRoles, u) THEN AnsweredRead(req, 403, NoData)
                 ELSE IF address = "invalid" THEN AnsweredRead(req, 400, NoData)
                 ELSE IF viewForbidden(u, address)
                 THEN AnsweredRead(req, errorHandler(ForbiddenError), NoData)
                 ELSE [req EXCEPT !.pc = "getProducerProjects"]]
    /\ ReadUnchanged

ProducerGetProducerProjects(r) ==
    /\ reqs[r].kind = "producerProjects" /\ reqs[r].pc = "getProducerProjects"
    /\ IF ~initialized
       THEN RespondRead(r, errorHandler(NotInitializedError), NoData)
       ELSE RespondRead(r, 200, [projects |->
                               ContractProducerProjects(projects, reqs[r].walletAddress),
                            milestones |-> {}])
    /\ ReadUnchanged

\* GET /api/projects/:id and GET /api/projects/:id/milestones, up to the
\* first await.
ProjectReadKinds == {"readProject", "readProjectMilestones"}

StartReadProject(r) ==
    /\ reqs[r].pc = "idle"
    /\ IF r = 1 THEN TRUE ELSE reqs[r - 1].pc # "idle"
    /\ \E u \in Principals, kind \in ProjectReadKinds, id \in 0..MaxProjects :
         LET req == [IdleRequest EXCEPT !.kind = kind, !.user = u, !.projectId = id]
         IN  reqs' = [reqs EXCEPT ![r] =
                 IF ~authorize(ReadRoles, u) THEN AnsweredRead(req, 403, NoData)
                 ELSE IF id < 1 THEN AnsweredRead(req, 400, NoData)
                 ELSE [req EXCEPT !.pc = "getProject"]]
    /\ ReadUnchanged

\* `await blockchainService.getProject(projectId)` and the producer check
ReadGetProject(r) ==
    /\ reqs[r].kind \in ProjectReadKinds /\ reqs[r].pc = "getProject"
    /\ LET p == getProject(reqs[r].projectId)
       IN  IF ~p.ok
           THEN RespondRead(r, errorHandler(projectRouteCatch(p.error)), NoData)
           ELSE IF viewForbidden(reqs[r].user, p.producer)
           THEN RespondRead(r, errorHandler(projectRouteCatch(ForbiddenError)), NoData)
           ELSE reqs' = [reqs EXCEPT ![r] = [@ EXCEPT !.pc = "getProjectMilestones"]]
    /\ ReadUnchanged

\* `await blockchainService.getProjectMilestones(projectId)` and res.json:
\* the project with its milestones, or the milestones alone.
ReadGetProjectMilestones(r) ==
    /\ reqs[r].kind \in ProjectReadKinds /\ reqs[r].pc = "getProjectMilestones"
    /\ IF ~initialized
       THEN RespondRead(r, errorHandler(projectRouteCatch(NotInitializedError)), NoData)
       ELSE RespondRead(r, 200,
              [projects |-> IF reqs[r].kind = "readProject"
                            THEN {reqs[r].projectId} ELSE {},
               milestones |-> ContractProjectMilestones(milestones, reqs[r].projectId)])
    /\ ReadUnchanged

\* GET /api/milestones/:id, up to the first await
StartReadMilestone(r) ==
    /\ reqs[r].pc = "idle"
    /\ IF r = 1 THEN TRUE ELSE reqs[r - 1].pc # "idle"
    /\ \E u \in Principals, id \in 0..MaxMilestones :
         LET req == [IdleRequest EXCEPT !.kind = "readMilestone", !.user = u, !.id = id]
         IN  reqs' = [reqs EXCEPT ![r] =
                 IF ~authorize(ReadRoles \cup {"oracle"}, u) THEN AnsweredRead(req, 403, NoData)
                 ELSE IF id < 1 THEN AnsweredRead(req, 400, NoData)
                 ELSE [req EXCEPT !.pc = "getMilestone"]]
    /\ ReadUnchanged

\* `await blockchainService.getMilestone(milestoneId)`
ReadGetMilestone(r) ==
    /\ reqs[r].kind = "readMilestone" /\ reqs[r].pc = "getMilestone"
    /\ LET m == getMilestone(reqs[r].id)
       IN  IF ~m.ok
           THEN RespondRead(r, errorHandler(routeCatch(m.error)), NoData)
           ELSE reqs' = [reqs EXCEPT ![r] =
                    [@ EXCEPT !.pc = "getProject",
                              !.projectId = milestones[reqs[r].id].projectId]]
    /\ ReadUnchanged

\* `await blockchainService.getProject(milestone.projectId)`, the producer
\* check and res.json: the milestone with the id, name and producer of its
\* project.
ReadMilestoneGetProject(r) ==
    /\ reqs[r].kind = "readMilestone" /\ reqs[r].pc = "getProject"
    /\ LET p == getProject(reqs[r].projectId)
       IN  IF ~p.ok
           THEN RespondRead(r, errorHandler(routeCatch(p.error)), NoData)
           ELSE IF viewForbidden(reqs[r].user, p.producer)
           THEN RespondRead(r, errorHandler(routeCatch(ForbiddenError)), NoData)
           ELSE RespondRead(r, 200, [projects |-> {reqs[r].projectId},
                                milestones |-> {reqs[r].id}])
    /\ ReadUnchanged

\* ------------------------------------------------- the milestones router
\* The routes of routes/milestones.js in the order they are registered.  A
\* path is its segments after /api/milestones; `:id` matches any segment.
Route(method, path, roles, handler) ==
    [method |-> method, path |-> path, roles |-> roles, handler |-> handler]

MilestoneRoutes ==
    <<Route("POST", <<>>, {"government"}, "createMilestone"),
      Route("GET", <<":id">>, {"government", "auditor", "oracle", "producer"},
            "readMilestone"),
      Route("POST", <<":id", "verify">>, {"oracle", "auditor"}, "verify"),
      Route("POST", <<":id", "dispute">>, {"producer", "government"}, "dispute"),
      Route("GET", <<"pending">>, {"oracle", "auditor"}, "pending"),
      Route("GET", <<"overdue">>, {"government", "auditor"}, "overdue"),
      Route("GET", <<"stats">>, {"government", "auditor"}, "stats"),
      Route("GET", <<"disputes">>, {"auditor"}, "disputes"),
      Route("POST", <<":id", "resolve-dispute">>, {"auditor"}, "resolveDispute"),
      Route("GET", <<"verification", "queue">>, {"oracle"}, "verificationQueue"),
      Route("POST", <<":id", "auto-verify">>, {"oracle"}, "autoVerify")>>

matchesPath(pattern, path) ==
    /\ Len(pattern) = Len(path)
    /\ \A i \in DOMAIN pattern : pattern[i] = ":id" \/ pattern[i] = path[i]

\* The router hands the request to the first registered route whose method
\* and path match; a route that answers does not call next().
dispatch(method, path) ==
    LET hits == {i \in DOMAIN MilestoneRoutes :
                    /\ MilestoneRoutes[i].method = method
                    /\ matchesPath(MilestoneRoutes[i].path, path)}
    IN  MilestoneRoutes[CHOOSE i \in hits : \A j \in hits : i <= j]

\* the GET paths of the model: the five list routes, a milestone id and a
\* number that is no id
ListPaths ==
    {<<"pending">>, <<"overdue">>, <<"stats">>, <<"disputes">>, <<"verification", "queue">>}

GetPaths == ListPaths \cup {<<"1">>, <<"0">>}

\* parseInt of a path segment that isInt accepts; -1 for one it rejects
toInt(segment) ==
    CASE segment = "1" -> 1 [] segment = "0" -> 0 [] OTHER -> -1

\* A GET request to /api/milestones/..., up to the first await of the route
\* it is dispatched to.  The list routes answer their (empty) result at once.
GetMilestonesPath(r) ==
    /\ reqs[r].pc = "idle"
    /\ IF r = 1 THEN TRUE ELSE reqs[r - 1].pc # "idle"
    /\ \E u \in Principals, path \in GetPaths :
         LET route == dispatch("GET", path)
             req == [IdleRequest EXCEPT !.kind = route.handler, !.user = u, !.path = path]
         IN  reqs' = [reqs EXCEPT ![r] =
                 IF ~authorize(route.roles, u) THEN AnsweredRead(req, 403, NoData)
                 ELSE IF route.handler # "readMilestone" THEN AnsweredRead(req, 200, NoData)
                 ELSE IF toInt(path[1]) < 1 THEN AnsweredRead(req, 400, NoData)
                 ELSE [req EXCEPT !.pc = "getMilestone", !.id = toInt(path[1])]]
    /\ ReadUnchanged

\* ------------------------------------------------------- the specification
\* The back end attaches to a ledger that already holds milestones; the
\* services have been constructed and initialize() has run, with or without
\* success.  No request has arrived yet.
InitServices ==
    /\ initialized \in BOOLEAN
    /\ milestones \in [MilestoneIds -> InitialMilestones]
    /\ oracleData = <<>>
    /\ users = SeedUsers
    /\ blockNumber = 1
    /\ reqs = [r \in ReqIds |-> IdleRequest]
    /\ auditLog = <<>>
    /\ pays = [p \in PayIds |-> IdlePayment]
    /\ paymentStatuses = {}
    /\ scheduledPayments = {}
    /\ transfers = [id \in MilestoneIds |-> 0]
    /\ nextNonce = 1
    /\ aggregation = IdleAggregation
    /\ cache = [key \in CacheKeys |-> NoEntry]
    /\ clock = 0
    /\ calls = [c \in CallIds |-> IdleCall]
    /\ iot = IdleIoT
    /\ trail = IdleTrail
    /\ recurring = IdleRecurring

Init ==
    /\ InitServices
    /\ projects = [p \in ProjectIds |-> IF p = ProjectId THEN FixtureProject ELSE NoProject]

\* A ledger that holds the project and no milestone yet.
InitNoMilestone ==
    /\ Init
    /\ \A id \in MilestoneIds : ~milestones[id].exists

\* A connected ledger whose milestones are all Pending.
InitAllPending ==
    /\ Init
    /\ initialized
    /\ \A id \in MilestoneIds : milestones[id].exists /\ milestones[id].status = 0

\* A connected ledger whose milestone slots are free or hold a Verified
\* milestone.
InitVerified ==
    /\ Init
    /\ initialized
    /\ \A id \in MilestoneIds :
          milestones[id] \in {NoMilestone, ResolvedMilestone(MaxValue, 1)}

\* The same, on a ledger whose project may be in any status.
InitAnyProject ==
    /\ InitServices
    /\ \E st \in 0..4 :
          projects = [p \in ProjectIds |->
                        IF p = ProjectId
                        THEN LedgerProject(ProjectProducer, MaxMilestones, st)
                        ELSE NoProject]

\* Spec: the two verification routes.
Next ==
    \/ \E r \in ReqIds : StartVerify(r)
    \/ \E r \in ReqIds : VerifyGetMilestone(r)
    \/ \E r \in ReqIds : VerifyVerifyMilestone(r)
    \/ \E r \in ReqIds : StartAutoVerify(r)
    \/ \E r \in ReqIds : AutoGetMilestone(r)
    \/ \E r \in ReqIds : AutoGetAggregateValue(r)
    \/ \E r \in ReqIds : AutoVerifyMilestone(r)

Spec == Init /\ [][Next]_vars

\* SpecDispute: manual verification and the dispute route.
NextDispute ==
    \/ \E r \in ReqIds : StartVerify(r)
    \/ \E r \in ReqIds : VerifyGetMilestone(r)
    \/ \E r \in ReqIds : VerifyVerifyMilestone(r)
    \/ \E r \in ReqIds : StartDispute(r)
    \/ \E r \in ReqIds : DisputeGetMilestone(r)
    \/ \E r \in ReqIds : DisputeGetProject(r)

SpecDispute == Init /\ [][NextDispute]_vars

\* SpecAutoVerify: the auto-verify route on its own.
NextAutoVerify ==
    \/ \E r \in ReqIds : StartAutoVerify(r)
    \/ \E r \in ReqIds : AutoGetMilestone(r)
    \/ \E r \in ReqIds : AutoGetAggregateValue(r)
    \/ \E r \in ReqIds : AutoVerifyMilestone(r)

SpecAutoVerify == Init /\ [][NextAutoVerify]_vars

\* SpecDisputeRoute: the dispute route on its own.
NextDisputeRoute ==
    \/ \E r \in ReqIds : StartDispute(r)
    \/ \E r \in ReqIds : DisputeGetMilestone(r)
    \/ \E r \in ReqIds : DisputeGetProject(r)

SpecDisputeRoute == Init /\ [][NextDisputeRoute]_vars

\* SpecResolve: the dispute route and the resolve-dispute route.
NextResolve ==
    \/ \E r \in ReqIds : StartDispute(r)
    \/ \E r \in ReqIds : DisputeGetMilestone(r)
    \/ \E r \in ReqIds : DisputeGetProject(r)
    \/ \E r \in ReqIds : StartResolveDispute(r)
    \/ \E r \in ReqIds : ResolveGetMilestone(r)

SpecResolve == Init /\ [][NextResolve]_vars

\* SpecEvidence: the three routes that bring evidence to the ledger (oracle
\* data, manual verify, auto-verify), from every principal, on Pending
\* milestones.  The bodies that pass the middleware are: verify with
\* actualValue 0 and success, auto-verify over a window in the past.
NextEvidence ==
    \/ \E r \in ReqIds : StartSubmitData(r)
    \/ \E r \in ReqIds : SubmitOracleData(r)
    \/ \E r \in ReqIds :
          /\ StartVerify(r)
          /\ reqs'[r].pc = "done" \/ (reqs'[r].actualValue = 0 /\ reqs'[r].success)
    \/ \E r \in ReqIds : VerifyGetMilestone(r)
    \/ \E r \in ReqIds : VerifyVerifyMilestone(r)
    \/ \E r \in ReqIds :
          /\ StartAutoVerify(r)
          /\ \/ reqs'[r].pc = "done"
             \/ reqs'[r].fromDate <= reqs'[r].toDate /\ reqs'[r].toDate <= NowDate
    \/ \E r \in ReqIds : AutoGetMilestone(r)
    \/ \E r \in ReqIds : AutoGetAggregateValue(r)
    \/ \E r \in ReqIds : AutoVerifyMilestone(r)

SpecEvidence == InitAllPending /\ [][NextEvidence]_vars

\* SpecAdmin: the routes of the government: projects, milestones, users.
NextAdmin ==
    \/ \E r \in ReqIds : StartCreateProject(r)
    \/ \E r \in ReqIds : CreateRegisterProject(r)
    \/ \E r \in ReqIds : StartSetProjectStatus(r)
    \/ \E r \in ReqIds : SetStatusGetProject(r)
    \/ \E r \in ReqIds : StartCreateMilestone(r)
    \/ \E r \in ReqIds : CreateGetProject(r)
    \/ \E r \in ReqIds : CreateAddMilestone(r)
    \/ \E r \in ReqIds : StartRegister(r)
    \/ \E r \in ReqIds : RegisterPush(r)

SpecAdmin == InitNoMilestone /\ [][NextAdmin]_vars

\* SpecForbidden: the routes that answer Forbidden in their three ways:
\* authorize (create milestone, dispute), the owner check of the dispute
\* handler, and the role check of the register handler, from every
\* principal.  The bodies that pass the middleware are: one milestone
\* amount for the fixture project, one new account.
NextForbidden ==
    \/ \E r \in ReqIds :
          /\ StartCreateMilestone(r)
          /\ \/ reqs'[r].pc = "done"
             \/ /\ reqs'[r].subsidyAmount = AmountMin
                /\ reqs'[r].projectId = ProjectId
    \/ \E r \in ReqIds : CreateGetProject(r)
    \/ \E r \in ReqIds : CreateAddMilestone(r)
    \/ \E r \in ReqIds : StartDispute(r)
    \/ \E r \in ReqIds : DisputeGetMilestone(r)
    \/ \E r \in ReqIds : DisputeGetProject(r)
    \/ \E r \in ReqIds :
          /\ StartRegister(r)
          /\ \/ reqs'[r].pc = "done"
             \/ /\ reqs'[r].password = DemoPassword
                /\ reqs'[r].email = reqs'[r].walletAddress
    \/ \E r \in ReqIds : RegisterPush(r)

SpecForbidden == InitVerified /\ [][NextForbidden]_vars

\* SpecAuthenticate: requests with every kind of Authorization header to
\* one route of each router that is mounted behind authenticateToken
\* (projects, oracle, audit) and to the profile route.
NextAuthenticate ==
    \/ \E r \in ReqIds : Receive(r)
    \/ \E r \in ReqIds : AuthenticateRejects(r)
    \/ \E r \in ReqIds : StartCreateProject(r) /\ AuthenticatePasses(r)
    \/ \E r \in ReqIds : CreateRegisterProject(r)
    \/ \E r \in ReqIds : StartSubmitData(r) /\ AuthenticatePasses(r)
    \/ \E r \in ReqIds : SubmitOracleData(r)
    \/ \E r \in ReqIds : GetAuditLogs(r) /\ AuthenticatePasses(r)
    \/ \E r \in ReqIds : GetProfile(r) /\ AuthenticatePasses(r)

SpecAuthenticate == InitNoMilestone /\ [][NextAuthenticate]_vars

\* SpecAccounts: register, login and change-password.
NextAccounts ==
    \/ \E r \in ReqIds : StartRegister(r)
    \/ \E r \in ReqIds : RegisterPush(r)
    \/ \E r \in ReqIds : Login(r)
    \/ \E r \in ReqIds : StartChangePassword(r)
    \/ \E r \in ReqIds : ChangePasswordStore(r)

SpecAccounts == Init /\ [][NextAccounts]_vars

\* SpecCreate: the create-milestone route on a ledger whose project may be
\* in any status.
NextCreate ==
    \/ \E r \in ReqIds : StartCreateMilestone(r)
    \/ \E r \in ReqIds : CreateGetProject(r)
    \/ \E r \in ReqIds : CreateAddMilestone(r)

SpecCreate == InitAnyProject /\ [][NextCreate]_vars

\* SpecStatus: the set-status route on a ledger whose project may be in any
\* status.
NextStatus ==
    \/ \E r \in ReqIds : StartSetProjectStatus(r)
    \/ \E r \in ReqIds : SetStatusGetProject(r)

SpecStatus == InitAnyProject /\ [][NextStatus]_vars

\* SpecRetry: the payment service on its own, with a gateway that fails in
\* every way; the calls ask for no deferred retry.
NextRetry ==
    \/ \E p \in PayIds : StartPayment(p) /\ ~pays'[p].retryOnFailure
    \/ \E p \in PayIds : PaymentAttemptSucceeds(p)
    \/ \E p \in PayIds : PaymentAttemptThrows(p)

SpecRetry == InitAllPending /\ [][NextRetry]_vars

\* SpecFailures: the same, with calls that ask for a deferred retry or not.
NextFailures ==
    \/ \E p \in PayIds : StartPayment(p)
    \/ \E p \in PayIds : PaymentAttemptSucceeds(p)
    \/ \E p \in PayIds : PaymentAttemptThrows(p)

SpecFailures == InitAllPending /\ [][NextFailures]_vars

\* SpecRecords: the payment service on its own, with calls that ask for a
\* deferred retry or not and a gateway whose failures are all of one class.
NextRecords ==
    \/ \E p \in PayIds : StartPayment(p)
    \/ \E p \in PayIds : PaymentAttemptSucceeds(p)
    \/ \E p \in PayIds :
          PaymentAttemptThrows(p) /\ pays'[p].error = "GatewayUnavailable"

SpecRecords == InitAllPending /\ [][NextRecords]_vars

\* SpecAggregate: one aggregation call over every list of sources.
NextAggregate == Aggregate

SpecAggregate == InitAllPending /\ [][NextAggregate]_vars

\* SpecCache: getCachedData calls, the clock and cleanExpiredCache.
NextCache ==
    \/ \E c \in CallIds : StartGetCached(c)
    \/ \E c \in CallIds : FetchReturns(c)
    \/ \E c \in CallIds : FetchThrows(c)
    \/ CleanExpiredCache
    \/ Tick

SpecCache == InitAllPending /\ [][NextCache]_vars

\* SpecRead: the read routes of projects and milestones, on a connected
\* ledger that holds a project of each producer; the milestones belong to the
\* first producer's project.
InitReaders ==
    /\ InitServices
    /\ initialized
    /\ \A id \in MilestoneIds : milestones[id] = PendingMilestone(MaxValue)
    /\ projects = [p \in ProjectIds |->
                     IF p = ProjectId THEN FixtureProject
                     ELSE IF p = ProjectId + 1
                     THEN LedgerProject(walletAddress("producer2"), MaxMilestones, 1)
                     ELSE NoProject]

\* The auditor reads as the government does; the readers of this
\* specification are the other four roles and the second producer.
Readers == Principals \ {"auditor"}

NextRead ==
    \/ \E r \in ReqIds : StartListProjects(r) /\ reqs'[r].user \in Readers
    \/ \E r \in ReqIds : ListGetProducerProjects(r)
    \/ \E r \in ReqIds : StartProducerProjects(r) /\ reqs'[r].user \in Readers
    \/ \E r \in ReqIds : ProducerGetProducerProjects(r)
    \/ \E r \in ReqIds : StartReadProject(r) /\ reqs'[r].user \in Readers
    \/ \E r \in ReqIds : ReadGetProject(r)
    \/ \E r \in ReqIds : ReadGetProjectMilestones(r)
    \/ \E r \in ReqIds : StartReadMilestone(r) /\ reqs'[r].user \in Readers
    \/ \E r \in ReqIds : ReadGetMilestone(r)
    \/ \E r \in ReqIds : ReadMilestoneGetProject(r)

SpecRead == InitReaders /\ [][NextRead]_vars

\* SpecIoT: the IoT service with its sockets, timers and pollers.
NextIoT ==
    \/ Initialize
    \/ \E d \in Devices, ws \in 1..MaxSockets : SocketOpen(d, ws)
    \/ \E d \in Devices, ws \in 1..MaxSockets : SocketMessage(d, ws)
    \/ \E d \in Devices, ws \in 1..MaxSockets : SocketError(d, ws)
    \/ \E d \in Devices, ws \in 1..MaxSockets : SocketClose(d, ws)
    \/ \E d \in Devices : ReconnectTimer(d)
    \/ \E d \in Devices : PollData(d)
    \/ Stop

SpecIoT == InitAllPending /\ [][NextIoT]_vars

\* SpecProfile: profile updates of the seeded users.
NextProfile ==
    \/ \E r \in ReqIds : UpdateProfile(r)
    \/ \E r \in ReqIds : GetProfile(r)

SpecProfile == Init /\ [][NextProfile]_vars

\* SpecTrail: an audit record is created, possibly changed, and verified.
NextTrail ==
    \/ CreateAuditTrail
    \/ ChangeField
    \/ VerifyAuditTrail

SpecTrail == InitAllPending /\ [][NextTrail]_vars

\* SpecDeferred: the payment service of SpecRecords, which takes every step
\* it can take.
SpecDeferred == SpecRecords /\ WF_vars(NextRecords)

\* SpecRecurring: a recurring schedule while the days pass; the schedule is
\* created at any time or never, and the clock does not stop before MaxDay.
NextRecurring ==
    \/ ScheduleRecurringPayment
    \/ DayPasses

SpecRecurring == InitAllPending /\ [][NextRecurring]_vars /\ WF_vars(DayPasses)

\* SpecDispatch: GET requests to the milestones router.
NextDispatch ==
    \/ \E r \in ReqIds : GetMilestonesPath(r)
    \/ \E r \in ReqIds : ReadGetMilestone(r)
    \/ \E r \in ReqIds : ReadMilestoneGetProject(r)

SpecDispatch == InitAllPending /\ [][NextDispatch]_vars

\* SpecPay: the payment service on its own, with a gateway whose failures are
\* all of one class.
NextPay ==
    \/ \E p \in PayIds : StartPayment(p)
    \/ \E p \in PayIds : PaymentAttemptSucceeds(p)
    \/ \E p \in PayIds :
          PaymentAttemptThrows(p) /\ pays'[p].error = "GatewayUnavailable"

SpecPay == Init /\ [][NextPay]_vars

\* SpecDisburse: manual verification next to the payment service (the same
\* gateway).
NextDisburse ==
    \/ \E r \in ReqIds : StartVerify(r)
    \/ \E r \in ReqIds : VerifyGetMilestone(r)
    \/ \E r \in ReqIds : VerifyVerifyMilestone(r)
    \/ \E p \in PayIds : StartPayment(p)
    \/ \E p \in PayIds : PaymentAttemptSucceeds(p)
    \/ \E p \in PayIds :
          PaymentAttemptThrows(p) /\ pays'[p].error = "GatewayUnavailable"

SpecDisburse == Init /\ [][NextDisburse]_vars

\* ------------------------------------------------------------------ claims
VerifyKinds == {"verify", "autoVerify"}

\* C1: when two verification requests (verify or auto-verify) have both read
\* the same milestone as Pending and both submitted their verification, one
\* is answered 200 and the other 409 Conflict.
C1_OneVerifiesOtherConflict ==
    \A r1 \in ReqIds, r2 \in ReqIds :
        ( /\ r1 # r2
          /\ reqs[r1].kind \in VerifyKinds /\ reqs[r2].kind \in VerifyKinds
          /\ reqs[r1].pc = "done" /\ reqs[r2].pc = "done"
          /\ reqs[r1].id = reqs[r2].id
          /\ reqs[r1].seenStatus = "Pending" /\ reqs[r2].seenStatus = "Pending"
          /\ reqs[r1].last = "verifyMilestone" /\ reqs[r2].last = "verifyMilestone" )
        => {reqs[r1].http, reqs[r2].http} = {200, 409}

\* C2: a verify request that found its milestone already out of Pending is
\* answered 409 Conflict without having submitted a verification to the
\* ledger.
C2_VerifyResolvedIsConflict ==
    \A r \in ReqIds :
        ( /\ reqs[r].kind = "verify" /\ reqs[r].pc = "done"
          /\ reqs[r].seenStatus \in {"Verified", "Failed", "Disputed"} )
        => (reqs[r].http = 409 /\ reqs[r].last # "verifyMilestone")

\* A milestone is paid when the ledger says so or when the payment service
\* holds a completed payment for it.
CompletedPayments(id) ==
    {e \in paymentStatuses : e.milestoneId = id /\ e.status = "completed"}

MilestonePaid(id) == milestones[id].paid \/ CompletedPayments(id) # {}

\* C3: every paid milestone is in status Verified.
C3_PaidImpliesVerified ==
    \A id \in MilestoneIds :
        MilestonePaid(id) => (milestones[id].exists /\ milestones[id].status = 1)

\* C4: a processPayment call that starts when a completed payment for its
\* milestone is already stored returns at once with that payment's id and
\* asks no gateway for a transfer.
C4_DisburseIdempotent ==
    [][\A p \in PayIds :
          (pays[p].pc = "idle" /\ pays'[p].pc # "idle"
             /\ CompletedPayments(pays'[p].milestoneId) # {})
          => ( /\ pays'[p].pc = "done"
               /\ \E e \in CompletedPayments(pays'[p].milestoneId) :
                      pays'[p].paymentId = e.paymentId
               /\ transfers' = transfers )]_vars

\* C5: once a verification request has been answered 200 and its milestone is
\* Verified, a payment for that milestone has been requested from the payment
\* service.
C5_VerifiedIsDisbursed ==
    \A r \in ReqIds :
        ( /\ reqs[r].kind \in VerifyKinds /\ reqs[r].pc = "done" /\ reqs[r].http = 200
          /\ milestones[reqs[r].id].status = 1 )
        => \E p \in PayIds : pays[p].pc # "idle" /\ pays[p].milestoneId = reqs[r].id

\* C6: the step in which an auto-verify request's verification is accepted
\* writes the aggregated total as actualValue and leaves the milestone
\* Verified when total >= target (total = target included), Failed when
\* total < target.
C6_AutoVerifyInclusive ==
    [][\A r \in ReqIds :
          (reqs[r].kind = "autoVerify" /\ reqs[r].pc = "verifyMilestone"
             /\ reqs'[r].http = 200)
          => ( /\ milestones'[reqs[r].id].actualValue = reqs[r].total
               /\ milestones'[reqs[r].id].status =
                     IF reqs[r].total >= milestones[reqs[r].id].targetValue
                     THEN 1 ELSE 2 )]_vars

\* an auto-verify accepted with total = target: the milestone is Verified
C6_Witness ==
    \E r \in ReqIds :
        /\ reqs[r].kind = "autoVerify" /\ reqs[r].pc = "done" /\ reqs[r].http = 200
        /\ milestones[reqs[r].id].status = 1
        /\ milestones[reqs[r].id].actualValue = milestones[reqs[r].id].targetValue

\* C7: an auto-verify request that reads a status other than Pending is
\* answered 400 in that same step: no aggregation, no verification, no audit
\* entry, the ledger unchanged.
C7_AutoVerifyNonPendingRejected ==
    [][\A r \in ReqIds :
          (reqs[r].kind = "autoVerify" /\ reqs[r].pc = "getMilestone"
             /\ reqs'[r].seenStatus \in {"Verified", "Failed", "Disputed"})
          => ( /\ reqs'[r].pc = "done" /\ reqs'[r].http = 400
               /\ milestones' = milestones /\ blockNumber' = blockNumber
               /\ auditLog' = auditLog )]_vars

\* an auto-verify request turned away from a Failed milestone
C7_Witness ==
    \E r \in ReqIds :
        /\ reqs[r].kind = "autoVerify" /\ reqs[r].pc = "done"
        /\ reqs[r].seenStatus = "Failed" /\ reqs[r].http = 400
        /\ reqs[r].last = "getMilestone"

\* `fromDate < toDate`, both at most the current time
validWindow(from, to) == from < to /\ from <= NowDate /\ to <= NowDate

\* C8: an auto-verify request gets as far as asking the aggregator only with
\* a window that has fromDate < toDate and both bounds <= now.
C8_WindowChecked ==
    \A r \in ReqIds :
        (reqs[r].kind = "autoVerify" /\ reqs[r].pc = "getAggregateValue")
        => validWindow(reqs[r].fromDate, reqs[r].toDate)

\* C9: after a dispute has been accepted (answered 200) the milestone's
\* status on the ledger is Disputed.
C9_DisputeLeavesDisputed ==
    \A r \in ReqIds :
        (reqs[r].kind = "dispute" /\ reqs[r].pc = "done" /\ reqs[r].http = 200)
        => milestones[reqs[r].id].status = 3

\* C10: the step that answers a dispute on a milestone read as Pending or
\* Disputed answers with an error (400 unless the producer check already
\* refused with 403), appends nothing to the audit log and changes nothing on
\* the ledger.
C10_DisputeNeedsResolved ==
    [][\A r \in ReqIds :
          (reqs[r].kind = "dispute" /\ reqs[r].pc = "getProject"
             /\ reqs'[r].pc # "getProject"
             /\ reqs[r].seenStatus \in {"Pending", "Disputed"})
          => ( /\ reqs'[r].pc = "done"
               /\ reqs'[r].http = IF disputeForbidden(reqs[r].user, ProjectProducer)
                                  THEN 403 ELSE 400
               /\ auditLog' = auditLog
               /\ milestones' = milestones /\ blockNumber' = blockNumber )]_vars

\* a government dispute turned away from a milestone that is already Disputed
C10_Witness ==
    \E r \in ReqIds :
        /\ reqs[r].kind = "dispute" /\ reqs[r].pc = "done"
        /\ reqs[r].user = "government"
        /\ reqs[r].seenStatus = "Disputed" /\ reqs[r].http = 400

\* C11: an accepted dispute (answered 200) comes from the government or from
\* the producer whose wallet address is the project's producer; auditor and
\* oracle are answered 403 by the middleware; another producer whose request
\* reaches the ownership check is answered 403.
C11_DisputeOnlyOwnerOrGovernment ==
    \A r \in ReqIds :
        (reqs[r].kind = "dispute" /\ reqs[r].pc = "done")
        => ( /\ reqs[r].http = 200
                  => ( \/ roleOf(reqs[r].user) = "government"
                       \/ ( /\ roleOf(reqs[r].user) = "producer"
                            /\ walletAddress(reqs[r].user) = ProjectProducer ) )
             /\ roleOf(reqs[r].user) \in {"auditor", "oracle"}
                  => (reqs[r].http = 403 /\ reqs[r].last = "idle")
             /\ ( /\ roleOf(reqs[r].user) = "producer"
                  /\ walletAddress(reqs[r].user) # ProjectProducer
                  /\ reqs[r].last = "getProject" /\ initialized )
                  => reqs[r].http = 403 )

\* the project's producer has had a dispute accepted and another producer has
\* been refused at the ownership check
C11_Witness ==
    \E r1 \in ReqIds, r2 \in ReqIds :
        /\ reqs[r1].kind = "dispute" /\ reqs[r1].pc = "done"
        /\ reqs[r1].user = "producer" /\ reqs[r1].http = 200
        /\ reqs[r2].kind = "dispute" /\ reqs[r2].pc = "done"
        /\ reqs[r2].user = "producer2" /\ reqs[r2].last = "getProject"
        /\ reqs[r2].http = 403

\* C12: when a dispute on a Verified milestone has been accepted, the step in
\* which a resolve-dispute request for that milestone reads it accepts the
\* resolution and leaves the milestone Verified for approved = true, Failed
\* for approved = false.
C12_DisputeRoundTrip ==
    [][\A r \in ReqIds :
          ( /\ reqs[r].kind = "resolveDispute" /\ reqs[r].pc = "getMilestone"
            /\ reqs'[r].pc = "done"
            /\ initialized
            /\ \E d \in ReqIds :
                  /\ reqs[d].kind = "dispute" /\ reqs[d].pc = "done"
                  /\ reqs[d].http = 200 /\ reqs[d].id = reqs[r].id
                  /\ reqs[d].seenStatus = "Verified" )
          => ( /\ reqs'[r].http = 200
               /\ milestones'[reqs[r].id].status = IF reqs[r].approved THEN 1 ELSE 2 )]_vars

AdminKinds == {"createProject", "setProjectStatus", "createMilestone", "register"}

\* C13: a create-project, set-project-status, create-milestone or register
\* request is answered with success (200, 201) only for a government
\* principal; from any other principal it is answered 403 (a register request
\* whose body fails validation is answered 400 before its role is looked
\* at).
C13_GovernmentOnly ==
    \A r \in ReqIds :
        (reqs[r].kind \in AdminKinds /\ reqs[r].pc = "done")
        => ( /\ reqs[r].http \in {200, 201} => roleOf(reqs[r].user) = "government"
             /\ roleOf(reqs[r].user) # "government"
                  => ( \/ reqs[r].http = 403
                       \/ reqs[r].kind = "register" /\ reqs[r].http = 400 ) )

\* the government has created a milestone and a producer has been refused
C13_Witness ==
    \E r1 \in ReqIds, r2 \in ReqIds :
        /\ reqs[r1].kind = "createMilestone" /\ reqs[r1].pc = "done"
        /\ reqs[r1].user = "government" /\ reqs[r1].http = 201
        /\ reqs[r2].kind \in AdminKinds /\ reqs[r2].pc = "done"
        /\ reqs[r2].user = "producer" /\ reqs[r2].http = 403

\* the roles a route grants
EvidenceRoles(kind) ==
    CASE kind = "verify" -> {"oracle", "auditor"}
      [] kind = "autoVerify" -> {"oracle"}
      [] kind = "submitData" -> {"oracle"}
      [] OTHER -> {}

\* C14: every step that changes a milestone on the ledger is the last step of
\* a verify request of an oracle or auditor or of an auto-verify request of
\* an oracle; every step that adds oracle data is the last step of a
\* submit-data request of an oracle; and a verify, auto-verify or submit-data
\* request is answered with success only for a role its route grants.
C14_EvidenceRoles ==
    [][ /\ \A id \in MilestoneIds :
              milestones'[id] # milestones[id]
              => \E r \in ReqIds :
                    /\ reqs[r].kind \in {"verify", "autoVerify"}
                    /\ reqs[r].pc = "verifyMilestone" /\ reqs'[r].pc = "done"
                    /\ reqs[r].id = id
                    /\ roleOf(reqs[r].user) \in EvidenceRoles(reqs[r].kind)
        /\ oracleData' # oracleData
              => \E r \in ReqIds :
                    /\ reqs[r].kind = "submitData"
                    /\ reqs[r].pc = "submitOracleData" /\ reqs'[r].pc = "done"
                    /\ roleOf(reqs[r].user) = "oracle"
        /\ \A r \in ReqIds :
              ( /\ reqs[r].pc # "done" /\ reqs'[r].pc = "done"
                /\ reqs'[r].kind \in {"verify", "autoVerify", "submitData"}
                /\ reqs'[r].http \in {200, 201} )
              => roleOf(reqs'[r].user) \in EvidenceRoles(reqs'[r].kind) ]_vars

\* an auditor's verify has been accepted and the government's has been
\* refused
C14_Witness ==
    \E r1 \in ReqIds, r2 \in ReqIds :
        /\ reqs[r1].kind = "verify" /\ reqs[r1].pc = "done"
        /\ reqs[r1].user = "auditor" /\ reqs[r1].http = 200
        /\ milestones[reqs[r1].id].status = 1
        /\ reqs[r2].kind \in {"verify", "autoVerify", "submitData"}
        /\ reqs[r2].pc = "done"
        /\ reqs[r2].user = "government" /\ reqs[r2].http = 403

\* the state a request can change: ledger, oracle data, users, audit log
Stores == <<milestones, projects, oracleData, users, auditLog>>

\* C15: the step that answers a request with Forbidden changes neither the
\* ledger nor the user store nor the audit log, and every step that changes
\* one of them is the last step of a request that is answered with success;
\* so a request answered with Forbidden has changed nothing.
C15_ForbiddenBeforeMutation ==
    [][ /\ \A r \in ReqIds :
              (reqs[r].pc # "done" /\ reqs'[r].pc = "done" /\ reqs'[r].http = 403)
              => Stores' = Stores
        /\ Stores' # Stores
              => \E r \in ReqIds :
                    /\ reqs[r].pc # "done" /\ reqs'[r].pc = "done"
                    /\ reqs'[r].http \in {200, 201} ]_vars

\* the three ways have happened: a producer turned away from creating a
\* milestone, the other producer turned away from a dispute after the
\* handler read the ledger, an auditor turned away from registering a user
C15_Witness ==
    \/ \E r1 \in ReqIds, r2 \in ReqIds :
          /\ reqs[r1].kind = "dispute" /\ reqs[r1].pc = "done"
          /\ reqs[r1].http = 403 /\ reqs[r1].user = "producer2"
          /\ reqs[r2].kind = "createMilestone" /\ reqs[r2].pc = "done"
          /\ reqs[r2].http = 403
          /\ auditLog = <<>>
    \/ \E r1 \in ReqIds, r2 \in ReqIds :
          /\ reqs[r1].kind = "dispute" /\ reqs[r1].pc = "done"
          /\ reqs[r1].http = 403 /\ reqs[r1].user = "producer2"
          /\ reqs[r2].kind = "register" /\ reqs[r2].pc = "done"
          /\ reqs[r2].http = 403
          /\ users = SeedUsers /\ auditLog = <<>>

isCurrentPassword(stored, password) ==
    IF stored.algorithm = "bcrypt" THEN stored.of = password
    ELSE password = DemoPassword

\* C17: a login is answered 200 exactly when its email belongs to a user in
\* the store and its password is the one that user registered with or last
\* changed to; otherwise it is answered 401.
C17_LoginChecksCurrentPassword ==
    [][ \A r \in ReqIds :
          (reqs[r].pc = "idle" /\ reqs'[r].kind = "login")
          => LET known == \E i \in userByEmail(reqs'[r].email) :
                              isCurrentPassword(users[i].password, reqs'[r].password)
             IN  reqs'[r].http = IF known THEN 200 ELSE 401 ]_vars

\* C18: a create-milestone request that has passed validateRequest, and so
\* may call the ledger, has a subsidyAmount above zero, and every milestone
\* on the ledger has one.
C18_SubsidyAmountValidated ==
    /\ \A r \in ReqIds :
          (reqs[r].kind = "createMilestone" /\ reqs[r].pc \in {"getProject", "addMilestone"})
          => (reqs[r].subsidyAmount # Missing /\ reqs[r].subsidyAmount > 0)
    /\ \A id \in MilestoneIds :
          milestones[id].exists => milestones[id].subsidyAmount > 0

\* C19: a create-milestone request for a project the ledger does not hold is
\* answered 404, one for a Cancelled or Completed project is answered 400,
\* and neither writes a milestone.
C19_CreateNeedsOpenProject ==
    [][ \A r \in ReqIds :
          ( /\ reqs[r].kind = "createMilestone"
            /\ reqs[r].pc \in {"getProject", "addMilestone"}
            /\ reqs'[r].pc = "done"
            /\ initialized )
          => LET p == reqs[r].projectId
             IN  /\ ~projects[p].exists
                      => (reqs'[r].http = 404 /\ milestones' = milestones)
                 /\ ( /\ projects[p].exists
                      /\ _getProjectStatusName(projects[p].status)
                            \in {"Cancelled", "Completed"} )
                      => (reqs'[r].http = 400 /\ milestones' = milestones) ]_vars

\* the milestones of a project that are paid
PaidMilestones(p) ==
    {id \in MilestoneIds : milestones[id].projectId = p /\ MilestonePaid(id)}

RECURSIVE SumSubsidy(_)
SumSubsidy(ids) ==
    IF ids = {} THEN 0
    ELSE LET id == CHOOSE i \in ids : TRUE
         IN  milestones[id].subsidyAmount + SumSubsidy(ids \ {id})

\* C20: for every project, the subsidy amounts of its paid milestones add up
\* to at most its disbursedAmount, which is at most its totalSubsidyAmount.
C20_SumInvariant ==
    \A p \in ProjectIds :
        projects[p].exists
        => /\ SumSubsidy(PaidMilestones(p)) <= projects[p].disbursedAmount
           /\ projects[p].disbursedAmount <= projects[p].totalSubsidyAmount

\* C21: a set-status request that is answered with success leaves the project
\* with the requested status, and a request to move a Cancelled project to
\* another status is not answered with success.
C21_SetStatusTakesEffect ==
    [][ \A r \in ReqIds :
          ( /\ reqs[r].kind = "setProjectStatus" /\ reqs[r].pc = "getProject"
            /\ reqs'[r].pc = "done" /\ reqs'[r].http = 200 )
          => LET p == reqs[r].projectId
             IN  /\ _getProjectStatusName(projects'[p].status) = reqs[r].newStatus
                 /\ _getProjectStatusName(projects[p].status) = "Cancelled"
                       => reqs[r].newStatus = "Cancelled" ]_vars

\* the failed record the service holds for a call
FailedRecords(pay) ==
    {e \in paymentStatuses : e.paymentId = pay.paymentId /\ e.status = "failed"}

PermanentErrors == {"InvalidBeneficiary", "InsufficientFunds", UnsupportedMethodError}

\* C23: after a permanent failure the call makes no further gateway call and
\* schedules no deferred retry.
C23_PermanentNotRetried ==
    \A p \in PayIds :
        pays[p].error \in PermanentErrors
        => /\ pays[p].pc = "done"
           /\ pays[p].attempt <= 1
           /\ pays[p].paymentId \notin scheduledPayments

\* C24: the step in which a call gives up stores a failed record under the
\* call's payment id and hands the error to the caller; a stored record is
\* never changed or removed, and a record that is added has a payment id no
\* stored record has.
C24_FailedRecordKept ==
    [][ /\ \A p \in PayIds :
              (pays[p].outcome # "failed" /\ pays'[p].outcome = "failed")
              => /\ pays'[p].pc = "done" /\ pays'[p].error # "none"
                 /\ \E e \in paymentStatuses' :
                       /\ e.paymentId = pays'[p].paymentId
                       /\ e.status = "failed" /\ e.error = pays'[p].error
        /\ paymentStatuses \subseteq paymentStatuses'
        /\ \A e \in paymentStatuses' \ paymentStatuses :
              \A old \in paymentStatuses : old.paymentId # e.paymentId ]_vars

\* a failed record with a scheduled retry is stored, and a later call for the
\* same milestone has stored its own record next to it
C24_Witness ==
    \E e1 \in paymentStatuses, e2 \in paymentStatuses :
        /\ e1.status = "failed" /\ e1.paymentId \in scheduledPayments
        /\ e2.milestoneId = e1.milestoneId /\ e2.paymentId # e1.paymentId
        /\ e2.paymentId[3] > e1.paymentId[3]

\* the audit entries the payment service writes
PaymentAuditActions == {"PAYMENT_COMPLETED", "PAYMENT_FAILED", "PAYMENT_ATTEMPT_FAILED"}

\* C25: every step in which a gateway call of a payment ends, with success or
\* with an error, adds an audit entry about that payment's milestone.
C25_EveryAttemptAudited ==
    [][ \A p \in PayIds :
          (pays[p].pc = "attempt" /\ pays'[p] # pays[p])
          => /\ Len(auditLog') = Len(auditLog) + 1
             /\ auditLog'[Len(auditLog')].action \in PaymentAuditActions
             /\ auditLog'[Len(auditLog')].milestoneId = pays[p].milestoneId ]_vars

\* C26: every step in which a verify or auto-verify request is answered with
\* an error by its handler, or in which a payment call gives up, adds an
\* entry to the audit log.
C26_FailuresAudited ==
    [][ /\ \A r \in ReqIds :
              ( /\ reqs[r].kind \in VerifyKinds
                /\ reqs[r].pc # "done" /\ reqs'[r].pc = "done"
                /\ reqs'[r].http >= 400 )
              => Len(auditLog') = Len(auditLog) + 1
        /\ \A p \in PayIds :
              (pays[p].outcome # "failed" /\ pays'[p].outcome = "failed")
              => Len(auditLog') = Len(auditLog) + 1 ]_vars



\* the sources of a call that returned data: a supported type whose platform
\* answered
Succeeded(sources) ==
    {i \in DOMAIN sources : sources[i].type # "satellite" /\ sources[i].answers}

RECURSIVE ReportedTotal(_, _)
\* the sum of the totals the sources in `ids` reported
ReportedTotal(sources, ids) ==
    IF ids = {} THEN 0
    ELSE LET i == CHOOSE j \in ids : TRUE
         IN  sources[i].total + ReportedTotal(sources, ids \ {i})

\* C27: an aggregation call returns a result whatever sources fail, and its
\* total is the sum of the totals reported by the sources that returned data,
\* of whatever type.
C27_TotalOfSucceeded ==
    aggregation.pc = "done"
    => /\ ~aggregation.returned.threw
       /\ aggregation.returned.totalProduction
            = ReportedTotal(aggregation.sources, Succeeded(aggregation.sources))

C29_NoSourceIsUnavailable ==
    aggregation.pc = "done"
    => LET n == Cardinality(Succeeded(aggregation.sources))
           r == aggregation.returned
       IN  /\ n = 0 => r.threw
           /\ (0 < n /\ n < Len(aggregation.sources))
                 => (~r.threw /\ r.dataReliability.num < 100 * r.dataReliability.den)

\* C30: a call is served from the cache exactly when the key has an entry and
\* the clock is before the entry's expiry, and then it returns the entry's
\* data and leaves the cache alone; otherwise it fetches.  A fetch that
\* returns stores its data under the key with the expiry ttlSeconds after
\* the moment of storing and touches no other key; a fetch that throws ends
\* the call with the error and leaves the cache as it is.
C30_CacheHonoursExpiry ==
    [][ \A c \in CallIds :
          /\ (calls[c].pc = "idle" /\ calls'[c].pc # "idle")
                => LET cached == cache[calls'[c].key]
                   IN  IF cached.present /\ clock < cached.expiresAt
                       THEN /\ calls'[c].pc = "done" /\ calls'[c].outcome = "hit"
                            /\ calls'[c].returned = cached.data
                            /\ cache' = cache
                       ELSE calls'[c].pc = "fetch" /\ cache' = cache
          /\ (calls[c].pc = "fetch" /\ calls'[c].pc = "done")
                => \/ /\ calls'[c].outcome = "fetched"
                      /\ cache'[calls[c].key] =
                            [present |-> TRUE, data |-> calls'[c].returned,
                             expiresAt |-> clock + calls[c].ttlSeconds * 1000]
                      /\ \A key \in CacheKeys \ {calls[c].key} : cache'[key] = cache[key]
                   \/ /\ calls'[c].outcome = "threw"
                      /\ cache' = cache ]_vars

\* one call was served from the cache, and another found the entry at its
\* expiry, fetched, failed, and left the expired entry where it was
C30_Witness ==
    \E c1 \in CallIds, c2 \in CallIds :
        /\ calls[c1].outcome = "hit"
        /\ calls[c2].outcome = "threw"
        /\ cache[calls[c2].key].present
        /\ cache[calls[c2].key].expiresAt = clock

\* C31: a producer reads a project, a project's milestones, a milestone or a
\* producer's project list only when the project's producer is the producer's
\* own wallet address: every record an answer to a producer carries belongs to
\* the producer, a request for another producer's data is answered 403 with no
\* data, and the listing of GET /api/projects is the producer's own projects
\* whatever the producer query says.
ReadKinds == {"listProjects", "producerProjects", "readMilestone"} \cup ProjectReadKinds

OwnedBy(p, address) == p \in ProjectIds /\ projects[p].exists /\ projects[p].producer = address

C31_ProducerReadsOwnOnly ==
    \A r \in ReqIds :
        LET q == reqs[r]
            own == walletAddress(q.user)
        IN  (q.kind \in ReadKinds /\ q.pc = "done" /\ roleOf(q.user) = "producer") =>
              /\ \A p \in q.json.projects : OwnedBy(p, own)
              /\ \A m \in q.json.milestones : OwnedBy(milestones[m].projectId, own)
              /\ q.http # 200 => q.json = NoData
              /\ (/\ q.kind \in ProjectReadKinds \cup {"readMilestone"}
                  /\ q.last = "getProject"
                  /\ initialized
                  /\ projects[q.projectId].exists
                  /\ ~OwnedBy(q.projectId, own)) => q.http = 403
              /\ (q.kind = "producerProjects" /\ q.walletAddress \in Addresses \ {own})
                    => q.http = 403
              /\ (q.kind = "listProjects" /\ q.http = 200)
                    => q.json.projects = ContractProducerProjects(projects, own)

\* the second producer asked for the first producer's project and milestone,
\* and listed projects with the first producer's address in the query
C31_Witness ==
    /\ \E r \in ReqIds :
          /\ reqs[r].kind = "readProject" /\ reqs[r].user = "producer2"
          /\ reqs[r].projectId = ProjectId /\ reqs[r].http = 403
    /\ \E r \in ReqIds :
          /\ reqs[r].kind = "listProjects" /\ reqs[r].user = "producer2"
          /\ reqs[r].walletAddress = ProjectProducer /\ reqs[r].http = 200
          /\ reqs[r].json.projects # {}

\* C32: for every device the reconnects scheduled by scheduleReconnect since
\* the device last connected are at most maxReconnectAttempts (5), and the
\* delay of the n-th of them is reconnectInterval * n.
C32_ReconnectBounded ==
    \A d \in Devices :
        /\ Len(iot.scheduled[d]) <= maxReconnectAttempts
        /\ \A n \in DOMAIN iot.scheduled[d] : iot.scheduled[d][n] = reconnectInterval * n

\* C33: after stop() the service stays quiescent: connections and deviceData
\* stay empty, and the service schedules no reconnect, opens no socket, stores
\* no device data and emits no deviceData or milestoneVerification event.
C33_QuietAfterStop ==
    iot.stopped =>
        /\ \A d \in Devices : ~iot.connections[d].present /\ ~iot.deviceData[d]
        /\ iot.afterStop = {}

\* C34: after any interleaving of register requests no two entries of the
\* user store share an email, a walletAddress or an id.
C34_UsersUnique ==
    \A i, j \in DOMAIN users :
        i # j => /\ users[i].email # users[j].email
                 /\ users[i].walletAddress # users[j].walletAddress
                 /\ users[i].id # users[j].id

\* C35: a profile update answered with 409 leaves the user store as it was,
\* the caller's name included, and after a profile update no two users share
\* a walletAddress.
C35_ConflictChangesNothing ==
    [][\A r \in ReqIds :
          (reqs[r].pc = "idle" /\ reqs'[r].kind = "updateProfile") =>
             /\ reqs'[r].http = 409 => users' = users
             /\ \A i, j \in DOMAIN users' :
                   i # j => users'[i].walletAddress # users'[j].walletAddress]_vars

\* C36: verifyAuditTrail returns true for every record as createAuditTrail
\* returned it, and false when a field other than checksum has been changed.
C36_AuditTrailRoundTrip ==
    trail.pc = "verified" => (trail.result <=> ~trail.changed)

\* C37: every deferred retry that scheduleRetry recorded is eventually
\* executed and its scheduledPayments entry removed or updated.  (No step of
\* the service changes an entry, so an executed retry shows as a removed one.)
C37_DeferredRetryRuns ==
    \A p \in PayIds :
        (pays[p].pc = "done" /\ pays[p].paymentId \in scheduledPayments)
            ~> (pays[p].paymentId \notin scheduledPayments)

\* The due dates of a schedule that the clock has reached
DueDates(schedule) ==
    {d \in schedule.startDate..schedule.now :
        /\ \E k \in 0..MaxDay :
              d = schedule.startDate +
                  k * (calculateNextPaymentDate(0, schedule.frequency))
        /\ schedule.endDate = NoDate \/ d <= schedule.endDate}

IssuedFor(schedule, d) == {i \in DOMAIN schedule.issued : schedule.issued[i].due = d}

\* the due dates the clock has reached for which no call was issued
Unpaid(schedule) == {d \in DueDates(schedule) : IssuedFor(schedule, d) = {}}

\* C38: every due date startDate + k * frequency up to endDate results in
\* exactly one processPayment call once the date has been reached; no call is
\* issued for a date after endDate or before its date, and the schedule is
\* inactive once its next date is after endDate.  (The clock stops at MaxDay:
\* from then on every due date that was reached has its call.)
C38_EveryDueDatePaid ==
    /\ [](recurring.present =>
            /\ \A i \in DOMAIN recurring.issued :
                  /\ recurring.issued[i].due <= recurring.issued[i].at
                  /\ recurring.endDate = NoDate
                        \/ recurring.issued[i].due <= recurring.endDate
            /\ \A d \in 1..MaxDay : Cardinality(IssuedFor(recurring, d)) <= 1
            /\ (recurring.endDate # NoDate /\ recurring.nextPayment > recurring.endDate)
                  => ~recurring.isActive)
    /\ (recurring.present /\ Unpaid(recurring) # {}) ~> (Unpaid(recurring) = {})

\* the route registered for a path itself
OwnRoute(path) ==
    CHOOSE i \in DOMAIN MilestoneRoutes :
        MilestoneRoutes[i].method = "GET" /\ MilestoneRoutes[i].path = path

\* C39: a GET request to /pending, /overdue, /stats, /disputes or
\* /verification/queue from a role the route grants is answered by that
\* route's own handler with 200, not by GET /:id, and no milestone changes.
C39_ListRoutesReached ==
    [][\A r \in ReqIds :
          (/\ reqs[r].pc = "idle" /\ reqs'[r].pc = "done"
           /\ reqs'[r].path \in ListPaths
           /\ authorize(MilestoneRoutes[OwnRoute(reqs'[r].path)].roles, reqs'[r].user))
             => /\ reqs'[r].kind = MilestoneRoutes[OwnRoute(reqs'[r].path)].handler
                /\ reqs'[r].http = 200
                /\ milestones' = milestones]_vars

====
